---- MODULE Spec2Model ----
(***************************************************************************)
(* Lead scoring and pricing service (ml-service).                          *)
(*                                                                         *)
(* The module models the four classes of the service and their             *)
(* module-level globals:                                                   *)
(*   ModelConfig      src/config/model_config.py                           *)
(*   FeatureEngineer  src/utils/feature_engineering.py                     *)
(*   LeadScorer       src/models/lead_scorer.py                            *)
(*   ScoringService   src/services/scoring_service.py                      *)
(* Numbers are fixed point: scores, thresholds and confidences are in      *)
(* hundredths (0.85 is 85), prices are in cents (135.00 is 13500),         *)
(* multipliers are in tenths (1.2 is 12), versions are in tenths.  The     *)
(* score of a service result is an exact fraction [n, d].                  *)
(*                                                                         *)
(* Specifications:                                                         *)
(*   Spec        the whole service from ScoringService() on, with          *)
(*               concurrent callers of score_lead and reload_models        *)
(*   ReloadSpec  ScoringService.reload_models over any registry content    *)
(*   ServiceSpec score_lead and reload_models for registered verticals     *)
(*   LockSpec    the lock of the service: registration, scoring and        *)
(*               reload side by side                                       *)
(*   LockFairSpec LockSpec under the scheduling of the event loop          *)
(*   OwnerSpec   the registered scorers and a further LeadScorer object    *)
(*   FeatureSpec transform_features of one FeatureEngineer object and      *)
(*               LeadScorer.score_lead on top of it                        *)
(*   EngineerSpec the public methods of one FeatureEngineer object         *)
(*   ScorerSpec  the methods of one LeadScorer object                      *)
(*   ConfigSpec  the methods of one ModelConfig object                     *)
(*   PriceSpec   the pure computations calculate_price and                 *)
(*               _calculate_confidence over a grid of inputs               *)
(* ModelConfig.__init__ cannot complete in the code as written (line 79:   *)
(* float('1.0.0') raises ValueError), so under Spec no LeadScorer is ever  *)
(* registered.  Every specification but Spec and PriceSpec therefore       *)
(* starts from object states whose fields hold the values the              *)
(* constructors assign, which is how the methods can be exercised at all.  *)
(***************************************************************************)
EXTENDS Integers, Sequences, FiniteSets, TLC

VARIABLES
    \* ---- ScoringService fields (scoring_service.py 35-47)
    scorers,             \* _scorers: vertical -> LeadScorer object
    configs,             \* _configs: vertical -> ModelConfig object
    thresholds,          \* _thresholds: vertical -> threshold
    market_adjustments,  \* _market_adjustments: vertical -> factors
    error_counts,        \* _error_counts, read with .get(v, 0)
    circuit_open,        \* _circuit_open, read with .get(v, False)
    lock,                \* _lock: "free" or the caller holding it
    \* ---- callers of the service
    pc,                  \* position of each caller
    req,                 \* the call each caller is making
    res,                 \* the outcome of each caller's last call
    streak,              \* history: failed score_lead calls in a row, per vertical
    built,               \* history: LeadScorer objects constructed, per vertical
    \* ---- module globals and the environment
    MODEL_CACHE,         \* lead_scorer.MODEL_CACHE: vertical -> (model, load time)
    SCORING_ERRORS,      \* lead_scorer.SCORING_ERRORS counter
    artifact,            \* what is stored at the model path of each vertical
    clock,               \* time.time(), in units of 1800 seconds
    nextModel,           \* identity of the next object joblib.load returns
    \* ---- one LeadScorer object, one ModelConfig object
    scorer,
    config,
    last,                \* the last method call on that object and its outcome
    \* ---- pure computations
    pin,                 \* inputs
    pout,                \* output
    \* ---- feature engineering
    PREPROCESSOR_CACHE,  \* feature_engineering.PREPROCESSOR_CACHE: key -> result
    engineer,            \* one FeatureEngineer object
    FEATURE_IMPORTANCE   \* feature_engineering.FEATURE_IMPORTANCE: feature -> score

svcVars    == <<scorers, configs, thresholds, market_adjustments, error_counts,
                circuit_open, lock, pc, req, res, streak, built>>
globalVars == <<MODEL_CACHE, SCORING_ERRORS, artifact, clock, nextModel>>
objVars    == <<scorer, config, last>>
pureVars   == <<pin, pout>>
featVars   == <<PREPROCESSOR_CACHE, engineer, FEATURE_IMPORTANCE>>
vars       == <<svcVars, globalVars, objVars, pureVars, featVars>>

None == "None"

(***************************************************************************)
(* Small helpers.                                                          *)
(***************************************************************************)
Abs(a) == IF a < 0 THEN -a ELSE a

RECURSIVE Pow10(_)
Pow10(n) == IF n = 0 THEN 1 ELSE 10 * Pow10(n - 1)

RECURSIVE GCD(_, _)
GCD(a, b) == IF b = 0 THEN a ELSE GCD(b, a % b)

\* dict.get(key, default)
Get(d, k, default) == IF k \in DOMAIN d THEN d[k] ELSE default

\* d[k] = v on a dict
Put(d, k, v) == [x \in (DOMAIN d) \cup {k} |-> IF x = k THEN v ELSE d[x]]

EmptyDict == [x \in {} |-> None]

(***************************************************************************)
(* Values of the variables a specification does not use.                   *)
(***************************************************************************)
SvcIdle ==
    /\ scorers = EmptyDict /\ configs = EmptyDict /\ thresholds = EmptyDict
    /\ market_adjustments = EmptyDict /\ error_counts = EmptyDict
    /\ circuit_open = EmptyDict /\ lock = "free"
    /\ pc = EmptyDict /\ req = EmptyDict /\ res = EmptyDict /\ streak = EmptyDict
    /\ built = EmptyDict

GlobalIdle ==
    /\ MODEL_CACHE = EmptyDict /\ SCORING_ERRORS = 0 /\ artifact = EmptyDict
    /\ clock = 0 /\ nextModel = 1

ObjIdle == scorer = None /\ config = None /\ last = None

FeatIdle ==
    /\ PREPROCESSOR_CACHE = EmptyDict /\ engineer = None
    /\ FEATURE_IMPORTANCE = EmptyDict


(***************************************************************************)
(* Pure computations of LeadScorer: price and confidence.                  *)
(***************************************************************************)
\* The score grid, in hundredths: [0,1] and a margin on either side, since a
\* model's raw prediction is not confined to [0,1].
ScoreMargin == 10

VerticalNames == {"auto", "home", "health", "life", "renters", "commercial",
                  "pet"}
ConditionNames == {"peak_hours", "off_peak", "weekend", "holiday", "promo"}
Months == 1 .. 12

\* lead_scorer.PRICE_MULTIPLIERS, in tenths
PRICE_MULTIPLIERS ==
    [v \in {"auto", "home", "health", "life", "renters", "commercial"} |->
        CASE v = "auto" -> 10
          [] v = "home" -> 12
          [] v = "health" -> 15
          [] v = "life" -> 18
          [] v = "renters" -> 8
          [] v = "commercial" -> 20]

\* lead_scorer.MARKET_ADJUSTMENTS, in tenths
MARKET_ADJUSTMENTS ==
    [c \in {"peak_hours", "off_peak", "weekend", "holiday"} |->
        CASE c = "peak_hours" -> 12
          [] c = "off_peak" -> 9
          [] c = "weekend" -> 11
          [] c = "holiday" -> 13]

\* months of the 10% seasonal boost
SeasonalMonths == {1, 4, 7, 10}

\* A price being computed is the exact fraction n/d of a dollar amount.
Frac(n, d) == [n |-> n, d |-> d]
\* base_price *= m, m in tenths
TimesTenths(q, m) == Frac(q.n * m, q.d * 10)
\* the same fraction in lowest terms
Reduce(q) == LET g == GCD(Abs(q.n), q.d) IN Frac(q.n \div g, q.d \div g)

\* for condition, adjustment in market_conditions.items(): ... (154-156)
RECURSIVE ApplyConditions(_, _)
ApplyConditions(q, conds) ==
    IF conds = {} THEN q
    ELSE LET c == CHOOSE x \in conds : TRUE
             q2 == IF c \in DOMAIN MARKET_ADJUSTMENTS
                   THEN TimesTenths(q, MARKET_ADJUSTMENTS[c])
                   ELSE q
         IN ApplyConditions(q2, conds \ {c})

\* min(max(base_price, 25.0), 500.0)
Clamp(q) ==
    IF q.n < 25 * q.d THEN Frac(25, 1)
    ELSE IF q.n > 500 * q.d THEN Frac(500, 1)
    ELSE q

\* round(x, 2), in cents.  Between two cents the nearer one is returned; at
\* an exact decimal tie the binary floating-point value of x decides, so
\* either neighbour is possible.
Round2(q) ==
    LET dollars == q.n \div q.d
        rest == 100 * (q.n % q.d)
        lo == 100 * dollars + (rest \div q.d)
        twice == 2 * (rest % q.d)
    IN IF twice < q.d THEN {lo}
       ELSE IF twice > q.d THEN {lo + 1}
       ELSE {lo, lo + 1}

\* calculate_price returning the rounded price without the final clamp
calculate_price_unclamped(vertical, score, market_conditions, month) ==
    LET base0 == Frac(50 + score, 1)
        base1 == TimesTenths(base0, Get(PRICE_MULTIPLIERS, vertical, 10))
        base2 == ApplyConditions(base1, market_conditions)
        seasonal_factor == IF month \in SeasonalMonths THEN 11 ELSE 10
        base3 == TimesTenths(base2, seasonal_factor)
    IN Round2(base3)

\* calculate_price clamping before the seasonal factor instead of last
calculate_price_clamp_early(vertical, score, market_conditions, month) ==
    LET base0 == Frac(50 + score, 1)
        base1 == TimesTenths(base0, Get(PRICE_MULTIPLIERS, vertical, 10))
        base2 == Clamp(ApplyConditions(base1, market_conditions))
        seasonal_factor == IF month \in SeasonalMonths THEN 11 ELSE 10
        base3 == TimesTenths(base2, seasonal_factor)
    IN Round2(base3)

\* LeadScorer.calculate_price with self._config._vertical = vertical and
\* datetime.now().month = month; the set of values round() can give
calculate_price(vertical, score, market_conditions, month) ==
    LET base0 == Frac(50 + score, 1)
        base1 == TimesTenths(base0, Get(PRICE_MULTIPLIERS, vertical, 10))
        base2 == ApplyConditions(base1, market_conditions)
        seasonal_factor == IF month \in SeasonalMonths THEN 11 ELSE 10
        base3 == TimesTenths(base2, seasonal_factor)
    IN Round2(Clamp(base3))

\* _calculate_confidence with the upper tier starting at 0.8 itself
_calculate_confidence_inclusive(score) ==
    IF score >= 80 \/ score < 20 THEN 90
    ELSE IF 40 <= score /\ score <= 60 THEN 70
    ELSE 80

\* LeadScorer._calculate_confidence, score and result in hundredths
_calculate_confidence(score) ==
    IF score > 80 \/ score < 20 THEN 90
    ELSE IF 40 <= score /\ score <= 60 THEN 70
    ELSE 80

PriceInputs ==
    [score : (0 - ScoreMargin) .. (100 + ScoreMargin), vertical : VerticalNames,
     conditions : SUBSET ConditionNames, month : Months]

NoOutput == [op |-> "none", value |-> 0]

\* pin and pout outside PriceSpec
PureIdle ==
    /\ pin = [score |-> 0, vertical |-> "auto", conditions |-> {}, month |-> 1]
    /\ pout = NoOutput

CalculatePrice ==
    /\ pout = NoOutput
    /\ \E c \in calculate_price(pin.vertical, pin.score, pin.conditions, pin.month) :
          pout' = [op |-> "price", value |-> c]
    /\ UNCHANGED <<featVars, pin, svcVars, globalVars, objVars>>

CalculateConfidence ==
    /\ pout = NoOutput
    /\ pout' = [op |-> "confidence", value |-> _calculate_confidence(pin.score)]
    /\ UNCHANGED <<featVars, pin, svcVars, globalVars, objVars>>

PriceNext == CalculatePrice \/ CalculateConfidence

PriceInit ==
    /\ pin \in PriceInputs
    /\ pout = NoOutput
    /\ SvcIdle /\ GlobalIdle /\ ObjIdle /\ FeatIdle

PriceSpec == PriceInit /\ [][PriceNext]_vars

(***************************************************************************)
(* ModelConfig (model_config.py).                                          *)
(* A configuration value is "default" (the list or dict FEATURE_CONFIG     *)
(* holds under the key), "custom" (another list or dict) or "scalar" (a    *)
(* value that is neither a list nor a dict).                               *)
(***************************************************************************)
\* DEFAULT_SCORING_THRESHOLD = 0.65
DEFAULT_SCORING_THRESHOLD == 65

\* CONFIG_VERSION = '1.0.0', as its dot-separated components
CONFIG_VERSION == <<1, 0, 0>>

RequiredKeys == {"numerical_features", "categorical_features", "text_features",
                 "feature_weights", "preprocessing"}

\* FEATURE_CONFIG: only auto and home are configured
FEATURE_CONFIG ==
    [v \in {"auto", "home"} |-> [k \in RequiredKeys |-> "default"]]

IsContainer(value) == value \in {"default", "custom"}

Ok(value) == [ok |-> TRUE, value |-> value]
Raise(error) == [ok |-> FALSE, error |-> error]

\* float(s) of a dotted numeral, in tenths: a numeral with more than one dot
\* is no float literal and raises ValueError
FloatOf(s) ==
    IF Len(s) = 1 THEN Ok(10 * s[1])
    ELSE IF Len(s) = 2 THEN Ok(10 * s[1] + s[2])
    ELSE Raise("ValueError")

\* _validate_config_override accepting every key
_validate_config_override_any(vertical, cfg) == Ok(None)

\* ModelConfig._validate_config_override
_validate_config_override(vertical, cfg) ==
    LET allowed_keys == DOMAIN FEATURE_CONFIG[vertical]
        invalid_keys == (DOMAIN cfg) \ allowed_keys
    IN IF invalid_keys # {} THEN Raise("ValueError") ELSE Ok(None)

\* ModelConfig._validate_configuration
_validate_configuration(cfg) ==
    IF ~(\A key \in RequiredKeys : key \in DOMAIN cfg) THEN Raise("ValueError")
    ELSE IF ~(\A key \in RequiredKeys : IsContainer(cfg[key])) THEN Raise("ValueError")
    ELSE Ok(None)

\* dict.update
DictUpdate(d, e) ==
    [k \in (DOMAIN d) \cup (DOMAIN e) |-> IF k \in DOMAIN e THEN e[k] ELSE d[k]]

\* A ModelConfig object.  caching is FALSE when _cache is None.
ConfigObject(vertical, cfg, caching, cache, version) ==
    [vertical |-> vertical, config |-> cfg, caching |-> caching,
     cache |-> cache, version |-> version]

\* ModelConfig.__init__(vertical, config_override, enable_caching); override
\* EmptyDict stands for no override
ModelConfigInit(vertical, config_override, enable_caching) ==
    IF vertical \notin DOMAIN FEATURE_CONFIG THEN Raise("ValueError")
    ELSE LET version == FloatOf(CONFIG_VERSION)
         IN IF ~version.ok THEN Raise(version.error)
            ELSE IF config_override # EmptyDict
                    /\ ~_validate_config_override(vertical, config_override).ok
            THEN Raise("ValueError")
            ELSE LET cfg == DictUpdate(FEATURE_CONFIG[vertical], config_override)
                 IN IF ~_validate_configuration(cfg).ok THEN Raise("ValueError")
                    ELSE Ok(ConfigObject(vertical, cfg, enable_caching,
                                         EmptyDict, version.value))

\* ModelConfig.get_model_path() with model_version None; exists tells whether
\* os.path.exists finds MODEL_BASE_PATH/vertical.  Gives the outcome and the
\* object after the call.
get_model_path(self, exists) ==
    IF self.caching /\ "model_path_None" \in DOMAIN self.cache
    THEN [ok |-> TRUE, value |-> self.cache["model_path_None"], self |-> self]
    ELSE IF ~exists
    THEN [ok |-> FALSE, error |-> "FileNotFoundError", self |-> self]
    ELSE [ok |-> TRUE, value |-> self.vertical,
          self |-> IF self.caching
                   THEN [self EXCEPT !.cache = Put(@, "model_path_None", self.vertical)]
                   ELSE self]

\* ModelConfig.get_scoring_threshold
get_scoring_threshold(self) ==
    IF self.caching /\ "scoring_threshold" \in DOMAIN self.cache
    THEN [ok |-> TRUE, value |-> self.cache["scoring_threshold"], self |-> self]
    ELSE LET threshold == Get(self.config, "scoring_threshold", DEFAULT_SCORING_THRESHOLD)
         IN IF ~(0 <= threshold /\ threshold <= 100)
            THEN [ok |-> FALSE, error |-> "ValueError", self |-> self]
            ELSE [ok |-> TRUE, value |-> threshold,
                  self |-> IF self.caching
                           THEN [self EXCEPT !.cache = Put(@, "scoring_threshold", threshold)]
                           ELSE self]

\* ModelConfig.update_config(new_config, persist); writable tells whether
\* _persist_configuration can write config.yaml
update_config(self, new_config, persist, writable) ==
    IF ~_validate_config_override(self.vertical, new_config).ok
    THEN [ok |-> FALSE, error |-> "ValueError", self |-> self]
    ELSE LET old_config == self.config
             updated == [self EXCEPT !.config = DictUpdate(@, new_config),
                                     !.version = @ + 1,
                                     !.cache = EmptyDict]
         IN IF persist /\ ~writable
            THEN \* except branch: only _config is put back
                 [ok |-> FALSE, error |-> "ValueError",
                  self |-> [updated EXCEPT !.config = old_config]]
            ELSE [ok |-> TRUE, value |-> TRUE, self |-> updated]

(***************************************************************************)
(* ConfigSpec: the methods of one ModelConfig object.  __init__ cannot     *)
(* complete (FloatOf(CONFIG_VERSION) raises), so the object starts with    *)
(* the fields as lines 76-79 assign them and a version of FirstVersion     *)
(* tenths.                                                                 *)
(***************************************************************************)
FirstVersion == 10
MaxUpdates == 3

ArtifactKinds == {"missing", "unreadable", "other", "booster"}

UpdateKeys == {"numerical_features", "feature_weights", "scoring_threshold"}
UpdateInputs == UNION {[ks -> {"custom", "scalar"}] : ks \in SUBSET UpdateKeys}

ConfigInit ==
    /\ config \in {ConfigObject(v, FEATURE_CONFIG[v], c, EmptyDict, FirstVersion) :
                      v \in DOMAIN FEATURE_CONFIG, c \in BOOLEAN}
    /\ last = [op |-> "none", ok |-> TRUE, pre |-> None, persist |-> FALSE]
    /\ artifact \in [DOMAIN FEATURE_CONFIG -> {"missing", "booster"}]
    /\ MODEL_CACHE = EmptyDict /\ SCORING_ERRORS = 0 /\ clock = 0 /\ nextModel = 1
    /\ scorer = None
    /\ SvcIdle /\ PureIdle /\ FeatIdle

UpdateConfig ==
    \E new_config \in UpdateInputs, persist \in BOOLEAN, writable \in BOOLEAN :
        /\ config.version < FirstVersion + MaxUpdates
        /\ LET r == update_config(config, new_config, persist, writable)
           IN /\ config' = r.self
              /\ last' = [op |-> "update_config", ok |-> r.ok, pre |-> config,
                          persist |-> persist]
        /\ UNCHANGED <<featVars, scorer, svcVars, globalVars, pureVars>>

GetScoringThreshold ==
    /\ LET r == get_scoring_threshold(config)
       IN /\ config' = r.self
          /\ last' = [op |-> "get_scoring_threshold", ok |-> r.ok, pre |-> config,
                      persist |-> FALSE]
    /\ UNCHANGED <<featVars, scorer, svcVars, globalVars, pureVars>>

GetModelPath ==
    /\ LET r == get_model_path(config, artifact[config.vertical] # "missing")
       IN /\ config' = r.self
          /\ last' = [op |-> "get_model_path", ok |-> r.ok, pre |-> config,
                      persist |-> FALSE]
    /\ UNCHANGED <<featVars, scorer, svcVars, globalVars, pureVars>>

\* ModelConfig(vertical, config_override, enable_caching): the object at hand
\* is replaced when the constructor completes
Construct ==
    \E vertical \in VerticalNames, enable_caching \in BOOLEAN,
       config_override \in {EmptyDict, [feature_weights |-> "custom"]} :
        /\ LET r == ModelConfigInit(vertical, config_override, enable_caching)
           IN /\ config' = IF r.ok THEN r.value ELSE config
              /\ last' = [op |-> "__init__", ok |-> r.ok, pre |-> config,
                          persist |-> FALSE, vertical |-> vertical]
        /\ UNCHANGED <<featVars, scorer, svcVars, globalVars, pureVars>>

ConfigNext == UpdateConfig \/ GetScoringThreshold \/ GetModelPath \/ Construct

ConfigSpec == ConfigInit /\ [][ConfigNext]_vars

(***************************************************************************)
(* FeatureEngineer (feature_engineering.py).                               *)
(* A lead frame is the one-row DataFrame LeadScorer.score_lead builds from *)
(* a lead record: the set of its columns, the number of distinct tokens in *)
(* each of its text cells, whether its numerical cells hold numbers, and   *)
(* the number they hold.                                                   *)
(* A feature value 0 is 0.0; a value t > 0 in a text block is the TF-IDF   *)
(* weight 1/sqrt(t) of one of the t tokens kept of a cell; a value -1 in a *)
(* text block is a cell of a HashingVectorizer row, whose content depends  *)
(* on the hash of the tokens.                                              *)
(***************************************************************************)
MaxTokens == 2

\* TfidfVectorizer(max_features=100), HashingVectorizer(n_features=100)
MAX_FEATURES == 100
\* the vocabulary size above which preprocess_text hashes (line 202)
HASHING_VOCABULARY == 10000

SeqToSet(s) == {s[i] : i \in DOMAIN s}

\* the feature lists and the scaling of FEATURE_CONFIG[vertical]
FeatureLists(vertical) ==
    IF vertical = "auto"
    THEN [numerical_features |->
              <<"age", "driving_years", "vehicle_age", "annual_mileage">>,
          categorical_features |->
              <<"vehicle_make", "vehicle_model", "usage_type", "coverage_type">>,
          text_features |-> <<"occupation", "location">>,
          scaling |-> "standard"]
    ELSE [numerical_features |->
              <<"property_age", "square_footage", "property_value">>,
          categorical_features |->
              <<"construction_type", "roof_type", "property_type">>,
          text_features |-> <<"address", "security_features">>,
          scaling |-> "minmax"]

\* the columns _validate_input_data requires for the vertical
RequiredColumns(vertical) ==
    SeqToSet(FeatureLists(vertical).numerical_features)
        \cup SeqToSet(FeatureLists(vertical).categorical_features)
        \cup SeqToSet(FeatureLists(vertical).text_features)

\* A FeatureEngineer object: _config._vertical, _feature_config, _use_cache
\* and _encoders (column -> the classes its LabelEncoder was last fit on).
\* _vectorizers, _scalers and _feature_stats are written and never read.
EngineerObject(vertical, use_cache) ==
    [vertical |-> vertical, feature_config |-> FeatureLists(vertical),
     use_cache |-> use_cache, encoders |-> EmptyDict]

LeadFrame(columns, tokens, numeric) ==
    [columns |-> columns, tokens |-> tokens, numeric |-> numeric, number |-> 1]
\* the frame with another number in its numerical cells
WithNumber(data, number) == [data EXCEPT !.number = number]

\* what transform_features returns: (combined_features, importance_scores)
FeatureResult(features, importance) ==
    [features |-> features, importance |-> importance]
NoFeatures == FeatureResult(<<>>, EmptyDict)

\* outcome of a FeatureEngineer call with PREPROCESSOR_CACHE and the engineer
\* after it
FeatureOutcome(ok, value, error, cache, hit, self) ==
    [ok |-> ok, value |-> value, error |-> error, cache |-> cache, hit |-> hit,
     self |-> self]

\* FeatureEngineer._validate_input_data
_validate_input_data(self, data) ==
    LET required_columns ==
            SeqToSet(self.feature_config.numerical_features)
                \cup SeqToSet(self.feature_config.categorical_features)
                \cup SeqToSet(self.feature_config.text_features)
        missing_columns == required_columns \ data.columns
    IN IF missing_columns # {} THEN Raise("ValueError") ELSE Ok(None)

\* FeatureEngineer._generate_cache_key: joblib.hash of the frame's content
_generate_cache_key(data) ==
    <<data.columns, data.tokens, data.numeric, data.number>>

\* FeatureEngineer._validate_numerical_ranges: a column is checked against
\* _feature_config['min_values'][column] and ['max_values'][column] where
\* the configuration has them, against -inf and inf where it has not; a
\* cell that is no number cannot be compared with either (TypeError)
_validate_numerical_ranges(self, data) ==
    LET min_values == Get(self.feature_config, "min_values", EmptyDict)
        max_values == Get(self.feature_config, "max_values", EmptyDict)
        columns == SeqToSet(self.feature_config.numerical_features)
    IN IF ~data.numeric THEN Raise("TypeError")
       ELSE IF \E column \in columns \cap DOMAIN min_values :
             data.number < min_values[column]
       THEN Raise("ValueError")
       ELSE IF \E column \in columns \cap DOMAIN max_values :
                  data.number > max_values[column]
       THEN Raise("ValueError")
       ELSE Ok(None)

\* preprocess_numerical on one row: the range check compares every cell with
\* a float, then either scaler maps the single value of a column to 0.0
preprocess_numerical(self, data) ==
    LET valid == _validate_numerical_ranges(self, data)
    IN IF ~valid.ok THEN Raise(valid.error)
       ELSE Ok([i \in DOMAIN self.feature_config.numerical_features |-> 0])

\* preprocess_categorical on one row: the only category of a column is rarer
\* than 10, becomes 'Other' and is label-encoded 0
preprocess_categorical(self, data) ==
    Ok([i \in DOMAIN self.feature_config.categorical_features |-> 0])

\* the labels of a categorical column in the order np.unique sorts them
LabelOrder == <<"A", "B", "Other">>

\* preprocess_categorical on one column of several rows, given as the number
\* of rows holding each category (162-178): the categories rarer than
\* min_category_frequency become 'Other', then LabelEncoder.fit_transform
\* fits the encoder on the labels of this batch and numbers them in sorted
\* order.  Gives the labels the encoder is left fit on and the code of each
\* category of the batch.
EncodeColumn(self, counts) ==
    LET frequency == Get(self.feature_config, "min_category_frequency", 10)
        rare_categories == {c \in DOMAIN counts : counts[c] < frequency}
        Label(c) == IF c \in rare_categories THEN "Other" ELSE c
        classes == {Label(c) : c \in DOMAIN counts}
        Code(l) == Cardinality({i \in DOMAIN LabelOrder :
                                  /\ LabelOrder[i] \in classes
                                  /\ \E j \in DOMAIN LabelOrder :
                                        LabelOrder[j] = l /\ i < j})
    IN [classes |-> classes, codes |-> [c \in DOMAIN counts |-> Code(Label(c))]]

\* the vectorizer preprocess_text selects for a column of t distinct tokens
\* (202-205)
SelectVectorizer(t) == IF t > HASHING_VOCABULARY THEN "hashing" ELSE "tfidf"

\* vectorizer.fit_transform(cleaned_text).toarray() of one cell of t distinct
\* tokens: the hashing vectorizer gives n_features columns; TF-IDF gives one
\* column per token of the vocabulary, at most max_features of them, and
\* raises ValueError on an empty vocabulary
VectorizeCell(t) ==
    IF SelectVectorizer(t) = "hashing" THEN Ok([j \in 1 .. MAX_FEATURES |-> 0 - 1])
    ELSE IF t = 0 THEN Raise("ValueError")
    ELSE LET width == IF t < MAX_FEATURES THEN t ELSE MAX_FEATURES
         IN Ok([j \in 1 .. width |-> width])

\* preprocess_text over the text columns given: np.hstack of the rows of the
\* columns
RECURSIVE preprocess_text(_, _)
preprocess_text(columns, data) ==
    IF columns = <<>> THEN Ok(<<>>)
    ELSE LET row == VectorizeCell(data.tokens)
         IN IF ~row.ok THEN Raise(row.error)
            ELSE LET rest == preprocess_text(Tail(columns), data)
                 IN Ok(row.value \o rest.value)

\* the three groups of lines 88-98 and np.hstack of them
_process_feature_group(self, data) ==
    LET numerical == preprocess_numerical(self, data)
        categorical == preprocess_categorical(self, data)
        text == preprocess_text(self.feature_config.text_features, data)
    IN IF ~numerical.ok THEN Raise(numerical.error)
       ELSE IF ~categorical.ok THEN Raise(categorical.error)
       ELSE IF ~text.ok THEN Raise(text.error)
       ELSE Ok(numerical.value \o categorical.value \o text.value)

\* joblib.Parallel(n_jobs=-1) over the three groups (88-95).  With several
\* jobs the groups run in worker processes, on copies of the engineer, and
\* the engineer of the caller stays as it was.  With one effective job (one
\* CPU, a CPU limit of one, a call made inside a worker) the groups run in
\* the calling process, one after the other: the numerical group first,
\* then preprocess_categorical, which leaves in self._encoders an encoder
\* fit on the labels of each categorical column (173-177), for one row the
\* label 'Other' alone, then the text group.  in_process tells which.
Parallel(self, data, in_process) ==
    LET numerical == preprocess_numerical(self, data)
        fit == [column \in SeqToSet(self.feature_config.categorical_features)
                   |-> {"Other"}]
    IN [result |-> _process_feature_group(self, data),
        self |-> IF in_process /\ numerical.ok
                 THEN [self EXCEPT !.encoders = DictUpdate(@, fit)]
                 ELSE self]

\* FeatureEngineer defines no _update_feature_stats (called at line 101)
_update_feature_stats(self, data) == Raise("AttributeError")

\* FeatureEngineer._calculate_feature_importance
_calculate_feature_importance(features) == EmptyDict

\* abs(a - b) > t in floats (line 306-307) differs from the comparison of
\* the hundredths only where the scores are exactly t apart: the float
\* difference of (x + t)/100 and x/100 then rounds to just above the float
\* t/100 for some x.  RoundsAbove[t + 1] is the set of these x, for the
\* thresholds t/100 of 0.00 .. 1.00 and scores within [0, 1]; under the
\* default threshold 0.2 it is {35, 36, 47, 48, 57 .. 61, 69 .. 73}.
RoundsAbove ==
<<
    {},
    {3, 4, 6, 9, 12, 13, 15, 16, 18, 19, 21, 22, 24, 25, 26, 27, 29, 30,
         31, 32, 33, 35, 36, 37, 38, 39, 41, 42, 43, 44, 45, 47, 48, 49,
         50, 51, 52, 53, 54, 55, 57, 58, 59, 60, 61, 62, 63, 64, 65, 66,
         67, 69, 70, 71, 72, 73, 74, 75, 76, 77, 78, 79, 80, 82, 83, 84,
         85, 86, 87, 88, 89, 90, 91, 92, 94, 95, 96, 97, 98, 99},
    {3, 5, 6, 8, 9, 11, 12, 15, 18, 21, 24, 25, 26, 29, 30, 31, 32, 35,
         36, 37, 38, 41, 42, 43, 44, 47, 48, 49, 50, 51, 52, 53, 54, 57,
         58, 59, 60, 61, 62, 63, 64, 65, 66, 69, 70, 71, 72, 73, 74, 75,
         76, 77, 78, 79, 82, 83, 84, 85, 86, 87, 88, 89, 90, 91, 94, 95,
         96, 97, 98},
    {2, 4, 11, 24, 25, 29, 30, 31, 35, 36, 37, 41, 42, 43, 47, 48, 49, 50,
         51, 52, 53, 57, 58, 59, 60, 61, 62, 63, 64, 65, 69, 70, 71, 72,
         73, 74, 75, 76, 77, 78, 82, 83, 84, 85, 86, 87, 88, 89, 90, 94,
         95, 96, 97},
    {3, 6, 9, 10, 12, 13, 15, 16, 18, 19, 21, 22, 23, 24, 29, 30, 35, 36,
         41, 42, 47, 48, 49, 50, 51, 52, 57, 58, 59, 60, 61, 62, 63, 64,
         69, 70, 71, 72, 73, 74, 75, 76, 77, 82, 83, 84, 85, 86, 87, 88,
         89, 94, 95, 96},
    {9, 12, 15, 18, 21, 22, 23, 29, 35, 41, 47, 48, 49, 50, 51, 57, 58,
         59, 60, 61, 62, 63, 69, 70, 71, 72, 73, 74, 75, 76, 82, 83, 84,
         85, 86, 87, 88, 94, 95},
    {1, 4, 8, 11, 21, 22, 47, 48, 49, 50, 57, 58, 59, 60, 61, 62, 69, 70,
         71, 72, 73, 74, 75, 82, 83, 84, 85, 86, 87, 94},
    {21, 47, 48, 49, 57, 58, 59, 60, 61, 69, 70, 71, 72, 73, 74, 82, 83,
         84, 85, 86},
    {6, 9, 12, 15, 18, 19, 20, 24, 25, 26, 29, 30, 31, 32, 35, 36, 37, 38,
         41, 42, 43, 44, 45, 46, 47, 48, 57, 58, 59, 60, 69, 70, 71, 72,
         73, 82, 83, 84, 85},
    {1, 5, 8, 11, 18, 19, 24, 25, 29, 30, 31, 35, 36, 37, 41, 42, 43, 44,
         45, 46, 47, 57, 58, 59, 69, 70, 71, 72, 82, 83, 84},
    {18, 24, 29, 30, 35, 36, 41, 42, 43, 44, 45, 46, 57, 58, 69, 70, 71,
         82, 83},
    {3, 6, 9, 12, 15, 16, 17, 21, 22, 23, 29, 35, 41, 42, 43, 44, 45, 57,
         69, 70, 82},
    {1, 2, 5, 8, 11, 15, 16, 21, 22, 41, 42, 43, 44, 69},
    {15, 21, 41, 42, 43},
    {41, 42},
    {2, 5, 8, 11, 12, 13, 18, 19, 24, 25, 29, 30, 31, 35, 36, 37, 38, 39,
         40, 41, 47, 48, 49, 50, 51, 52, 53, 57, 58, 59, 60, 61, 62, 63,
         64, 65, 66, 69, 70, 71, 72, 73, 74, 75, 76, 77, 78, 82, 83, 84,
         85},
    {11, 12, 18, 24, 29, 30, 35, 36, 37, 38, 39, 40, 47, 48, 49, 50, 51,
         52, 57, 58, 59, 60, 61, 62, 63, 64, 65, 69, 70, 71, 72, 73, 74,
         75, 76, 77, 82, 83, 84},
    {11, 29, 35, 36, 37, 38, 39, 47, 48, 49, 50, 51, 57, 58, 59, 60, 61,
         62, 63, 64, 69, 70, 71, 72, 73, 74, 75, 76, 82, 83},
    {2, 9, 10, 15, 16, 21, 22, 35, 36, 37, 38, 47, 48, 49, 50, 57, 58, 59,
         60, 61, 62, 63, 69, 70, 71, 72, 73, 74, 75, 82},
    {9, 15, 21, 35, 36, 37, 47, 48, 49, 57, 58, 59, 60, 61, 62, 69, 70,
         71, 72, 73, 74},
    {35, 36, 47, 48, 57, 58, 59, 60, 61, 69, 70, 71, 72, 73},
    {2, 5, 6, 7, 11, 12, 13, 18, 19, 24, 25, 29, 30, 31, 32, 33, 34, 35,
         41, 42, 43, 44, 45, 46, 47, 57, 58, 59, 60, 69, 70, 71, 72},
    {5, 6, 11, 12, 18, 24, 29, 30, 31, 32, 33, 34, 41, 42, 43, 44, 45, 46,
         57, 58, 59, 69, 70, 71},
    {5, 11, 29, 30, 31, 32, 33, 41, 42, 43, 44, 45, 57, 58, 69, 70},
    {2, 3, 4, 9, 10, 15, 16, 21, 22, 29, 30, 31, 32, 41, 42, 43, 44, 57,
         69},
    {29, 30, 31, 41, 42, 43},
    {29, 30, 41, 42},
    {29, 41},
    {},
    {3, 4, 5, 9, 10, 11, 15, 16, 17, 21, 22, 23, 24, 25, 26, 27, 35, 36,
         37, 38, 39, 47, 48, 49, 50, 51, 52, 57, 58, 59, 60, 61, 62, 63,
         64, 69, 70, 71},
    {3, 4, 9, 10, 15, 16, 21, 22, 23, 24, 25, 26, 35, 36, 37, 38, 47, 48,
         49, 50, 51, 57, 58, 59, 60, 61, 62, 63, 69, 70},
    {3, 9, 15, 21, 22, 23, 24, 25, 35, 36, 37, 47, 48, 49, 50, 57, 58, 59,
         60, 61, 62, 69},
    {21, 22, 23, 24, 35, 36, 47, 48, 49, 57, 58, 59, 60, 61},
    {21, 22, 23, 35, 47, 48, 57, 58, 59, 60},
    {21, 22, 47, 57, 58, 59},
    {4, 5, 11, 18, 19, 20, 21, 29, 30, 31, 32, 33, 41, 42, 43, 44, 45, 46,
         57, 58},
    {4, 18, 19, 20, 29, 30, 31, 32, 41, 42, 43, 44, 45, 57},
    {18, 19, 29, 30, 31, 41, 42, 43, 44},
    {18, 29, 30, 41, 42, 43},
    {29, 41, 42},
    {41},
    {3, 4, 5, 9, 10, 11, 12, 13, 14, 15, 21, 22, 23, 24, 25, 26, 27, 35,
         36, 37, 38, 39, 40, 47, 48, 49, 50, 51, 52, 57, 58, 59},
    {3, 4, 9, 10, 11, 12, 13, 14, 21, 22, 23, 24, 25, 26, 35, 36, 37, 38,
         39, 47, 48, 49, 50, 51, 57, 58},
    {3, 9, 10, 11, 12, 13, 21, 22, 23, 24, 25, 35, 36, 37, 38, 47, 48, 49,
         50, 57},
    {9, 10, 11, 12, 21, 22, 23, 24, 35, 36, 37, 47, 48, 49},
    {9, 10, 11, 21, 22, 23, 35, 36, 47, 48},
    {9, 10, 21, 22, 35, 47},
    {4, 5, 6, 7, 8, 9, 18, 19, 20, 21, 29, 30, 31, 32, 33, 34, 41, 42, 43,
         44, 45, 46},
    {4, 5, 6, 7, 8, 18, 19, 20, 29, 30, 31, 32, 33, 41, 42, 43, 44, 45},
    {4, 5, 6, 7, 18, 19, 29, 30, 31, 32, 41, 42, 43, 44},
    {},
    {},
    {},
    {},
    {},
    {},
    {},
    {6, 7, 8, 9, 10, 11, 18, 19, 20, 21, 22, 23, 24, 29, 30, 31, 32, 33,
         34, 35, 36, 41, 42, 43},
    {6, 7, 8, 9, 10, 18, 19, 20, 21, 22, 23, 29, 30, 31, 32, 33, 34, 35,
         41, 42},
    {6, 7, 8, 9, 18, 19, 20, 21, 22, 29, 30, 31, 32, 33, 34, 41},
    {6, 7, 8, 18, 19, 20, 21, 29, 30, 31, 32, 33},
    {6, 7, 18, 19, 20, 29, 30, 31, 32},
    {6, 18, 19, 29, 30, 31},
    {18, 29, 30},
    {29},
    {},
    {},
    {},
    {},
    {8, 9, 10, 11, 12, 21, 22, 23, 24},
    {8, 9, 10, 11, 21, 22, 23},
    {8, 9, 10, 21, 22},
    {8, 9, 21},
    {8},
    {},
    {},
    {},
    {},
    {},
    {},
    {},
    {},
    {6, 7, 8, 9, 10, 11, 18},
    {6, 7, 8, 9, 10},
    {6, 7, 8, 9},
    {6, 7, 8},
    {6, 7},
    {6},
    {},
    {},
    {},
    {},
    {},
    {},
    {},
    {},
    {},
    {},
    {},
    {},
    {}
>>

\* abs(score - tracked) > threshold in floats (line 306-307), for scores
\* and thresholds in hundredths within [0, 1]
ChangeExceeds(score, tracked, threshold) ==
    LET lower == IF score < tracked THEN score ELSE tracked
    IN \/ Abs(score - tracked) > threshold
       \/ /\ threshold \in 0 .. 100 /\ Abs(score - tracked) = threshold
          /\ lower \in RoundsAbove[threshold + 1]

\* FeatureEngineer._analyze_importance_trends(new_scores), tracker being
\* FEATURE_IMPORTANCE when it is called: the features
\* _trigger_importance_alert is called for.  Scores and the threshold
\* (default 0.2) are in hundredths.
_analyze_importance_trends(self, new_scores, tracker) ==
    {feature \in DOMAIN new_scores :
        /\ feature \in DOMAIN tracker
        /\ ChangeExceeds(new_scores[feature], tracker[feature],
                         Get(self.feature_config, "importance_change_threshold", 20))}

\* FeatureEngineer.update_feature_importance(importance_scores) of a dict:
\* the outcome, FEATURE_IMPORTANCE after the call and the alerts triggered.
\* The tracker is updated (238) before the trends are analysed (241).
update_feature_importance(self, importance_scores, tracker) ==
    IF ~(\A f \in DOMAIN importance_scores :
            0 <= importance_scores[f] /\ importance_scores[f] <= 100)
    THEN [ok |-> FALSE, error |-> "ValueError", tracker |-> tracker, alerts |-> {}]
    ELSE LET updated == DictUpdate(tracker, importance_scores)
         IN [ok |-> TRUE, error |-> "", tracker |-> updated,
             alerts |-> _analyze_importance_trends(self, importance_scores, updated)]

\* transform_features looking into the cache before it validates the input
transform_features_cache_first(self, data, return_importance, cache, in_process) ==
    LET valid == _validate_input_data(self, data)
        cache_key == _generate_cache_key(data)
        groups == Parallel(self, data, in_process)
        combined == groups.result
        stats == _update_feature_stats(groups.self, data)
    IN IF self.use_cache /\ cache_key \in DOMAIN cache
       THEN FeatureOutcome(TRUE, cache[cache_key], "", cache, TRUE, self)
       ELSE IF ~valid.ok
       THEN FeatureOutcome(FALSE, NoFeatures, valid.error, cache, FALSE, self)
       ELSE IF ~combined.ok
       THEN FeatureOutcome(FALSE, NoFeatures, combined.error, cache, FALSE,
                           groups.self)
       ELSE FeatureOutcome(FALSE, NoFeatures, stats.error, cache, FALSE, groups.self)

\* FeatureEngineer.transform_features(lead_data, return_importance), cache
\* being PREPROCESSOR_CACHE and in_process the way joblib runs the groups
transform_features(self, data, return_importance, cache, in_process) ==
    LET valid == _validate_input_data(self, data)
        cache_key == _generate_cache_key(data)
        groups == Parallel(self, data, in_process)
        combined == groups.result
        stats == _update_feature_stats(groups.self, data)
    IN IF ~valid.ok
       THEN FeatureOutcome(FALSE, NoFeatures, valid.error, cache, FALSE, self)
       ELSE IF self.use_cache /\ cache_key \in DOMAIN cache
       THEN FeatureOutcome(TRUE, cache[cache_key], "", cache, TRUE, self)
       ELSE IF ~combined.ok
       THEN FeatureOutcome(FALSE, NoFeatures, combined.error, cache, FALSE,
                           groups.self)
       ELSE IF ~stats.ok
       THEN FeatureOutcome(FALSE, NoFeatures, stats.error, cache, FALSE, groups.self)
       ELSE LET importance_scores ==
                    IF return_importance
                    THEN _calculate_feature_importance(combined.value)
                    ELSE EmptyDict
                result == FeatureResult(combined.value, importance_scores)
            IN FeatureOutcome(TRUE, result, "",
                              IF self.use_cache THEN Put(cache, cache_key, result)
                              ELSE cache,
                              FALSE, groups.self)

(***************************************************************************)
(* LeadScorer (lead_scorer.py).                                            *)
(* A model object is identified by a positive number; NoModel is None.     *)
(* The clock counts units of 1800 seconds, so the hour of freshness of     *)
(* MODEL_CACHE is CACHE_TTL = 2 units.                                     *)
(***************************************************************************)
NoModel == 0
NoThreshold == -1
CACHE_TTL == 2

\* A LeadScorer object: _config, _feature_engineer, _model, _threshold
ScorerObject(cfg, model, threshold) ==
    [vertical |-> cfg.vertical, config |-> cfg,
     feature_engineer |-> EngineerObject(cfg.vertical, TRUE),
     model |-> model, threshold |-> threshold]

\* a MODEL_CACHE entry (model, load time)
CacheEntry(model, time) == [model |-> model, time |-> time]

\* joblib.load(model_path) followed by the isinstance check, for what is
\* stored at the path; new_model is the identity of a loaded object
LoadModel(kind, new_model) ==
    CASE kind = "booster" -> Ok(new_model)
      [] kind = "other" -> Raise("ValueError")
      [] OTHER -> Raise("Exception")

\* LeadScorer.reload_model with the model moved in before it is validated
reload_model_unvalidated(self, kind, cache, errors, now, new_model) ==
    LET path == get_model_path(self.config, kind # "missing")
        loaded == LoadModel(kind, new_model)
        fail(obj, c) == [ok |-> FALSE, error |-> "ValueError", self |-> obj,
                         cache |-> c, errors |-> errors + 1]
    IN IF ~path.ok THEN fail(self, cache)
       ELSE IF kind \in {"missing", "unreadable"}
       THEN fail([self EXCEPT !.config = path.self], cache)
       ELSE LET with_model == [self EXCEPT !.config = path.self, !.model = new_model]
            IN IF ~loaded.ok THEN fail(with_model, cache)
               ELSE LET cache2 == Put(cache, self.vertical, CacheEntry(new_model, now))
                        thr == get_scoring_threshold(with_model.config)
                    IN IF ~thr.ok THEN fail(with_model, cache2)
                       ELSE [ok |-> TRUE, value |-> TRUE,
                             self |-> [with_model EXCEPT !.config = thr.self,
                                                         !.threshold = thr.value],
                             cache |-> cache2, errors |-> errors]

\* reload_model leaving the MODEL_CACHE entry of the vertical as it was
reload_model_stale_cache(self, kind, cache, errors, now, new_model) ==
    LET path == get_model_path(self.config, kind # "missing")
        loaded == LoadModel(kind, new_model)
        fail(obj, c) == [ok |-> FALSE, error |-> "ValueError", self |-> obj,
                         cache |-> c, errors |-> errors + 1]
    IN IF ~path.ok THEN fail(self, cache)
       ELSE IF ~loaded.ok THEN fail([self EXCEPT !.config = path.self], cache)
       ELSE LET with_model == [self EXCEPT !.config = path.self, !.model = loaded.value]
                cache2 == IF self.vertical \in DOMAIN cache THEN cache
                          ELSE Put(cache, self.vertical, CacheEntry(loaded.value, now))
                thr == get_scoring_threshold(with_model.config)
            IN IF ~thr.ok THEN fail(with_model, cache2)
               ELSE [ok |-> TRUE, value |-> TRUE,
                     self |-> [with_model EXCEPT !.config = thr.self,
                                                 !.threshold = thr.value],
                     cache |-> cache2, errors |-> errors]

\* reload_model dropping the current model before it loads the new one
reload_model_clearing(self, kind, cache, errors, now, new_model) ==
    LET path == get_model_path(self.config, kind # "missing")
        loaded == LoadModel(kind, new_model)
        fail(obj, c) == [ok |-> FALSE, error |-> "ValueError", self |-> obj,
                         cache |-> c, errors |-> errors + 1]
    IN IF ~path.ok THEN fail(self, cache)
       ELSE IF ~loaded.ok
       THEN fail([self EXCEPT !.config = path.self, !.model = NoModel], cache)
       ELSE LET with_model == [self EXCEPT !.config = path.self, !.model = loaded.value]
                cache2 == Put(cache, self.vertical, CacheEntry(loaded.value, now))
                thr == get_scoring_threshold(with_model.config)
            IN IF ~thr.ok THEN fail(with_model, cache2)
               ELSE [ok |-> TRUE, value |-> TRUE,
                     self |-> [with_model EXCEPT !.config = thr.self,
                                                 !.threshold = thr.value],
                     cache |-> cache2, errors |-> errors]

\* LeadScorer.reload_model.  kind is what the model path holds, cache is
\* MODEL_CACHE, errors is SCORING_ERRORS, now is time.time().  Gives the
\* outcome with the object, MODEL_CACHE and SCORING_ERRORS after the call.
reload_model(self, kind, cache, errors, now, new_model) ==
    LET path == get_model_path(self.config, kind # "missing")
        loaded == LoadModel(kind, new_model)
        fail(obj, c) == [ok |-> FALSE, error |-> "ValueError", self |-> obj,
                         cache |-> c, errors |-> errors + 1]
    IN IF ~path.ok THEN fail(self, cache)
       ELSE IF ~loaded.ok THEN fail([self EXCEPT !.config = path.self], cache)
       ELSE LET with_model == [self EXCEPT !.config = path.self, !.model = loaded.value]
                cache2 == Put(cache, self.vertical, CacheEntry(loaded.value, now))
                thr == get_scoring_threshold(with_model.config)
            IN IF ~thr.ok THEN fail(with_model, cache2)
               ELSE [ok |-> TRUE, value |-> TRUE,
                     self |-> [with_model EXCEPT !.config = thr.self,
                                                 !.threshold = thr.value],
                     cache |-> cache2, errors |-> errors]

\* update_threshold where force_update skips every validation
update_threshold_force_all(self, new_threshold, force_update) ==
    IF ~force_update /\ ~(0 <= new_threshold /\ new_threshold <= 100)
    THEN [ok |-> FALSE, error |-> "ValueError", self |-> self]
    ELSE IF ~force_update /\ (new_threshold > 90 \/ new_threshold < 30)
    THEN [ok |-> FALSE, error |-> "ValueError", self |-> self]
    ELSE [ok |-> TRUE, value |-> TRUE, self |-> [self EXCEPT !.threshold = new_threshold]]

\* LeadScorer.update_threshold
update_threshold(self, new_threshold, force_update) ==
    IF ~(0 <= new_threshold /\ new_threshold <= 100)
    THEN [ok |-> FALSE, error |-> "ValueError", self |-> self]
    ELSE IF ~force_update /\ (new_threshold > 90 \/ new_threshold < 30)
    THEN [ok |-> FALSE, error |-> "ValueError", self |-> self]
    ELSE [ok |-> TRUE, value |-> TRUE, self |-> [self EXCEPT !.threshold = new_threshold]]

\* _initialize_model taking the cache entry whatever its age
_initialize_model_ageless(self, kind, cache, errors, now, new_model) ==
    IF self.vertical \in DOMAIN cache
    THEN LET thr == get_scoring_threshold(self.config)
         IN [ok |-> TRUE, value |-> None,
             self |-> [self EXCEPT !.model = cache[self.vertical].model,
                                   !.config = thr.self,
                                   !.threshold = thr.value],
             cache |-> cache, errors |-> errors]
    ELSE reload_model(self, kind, cache, errors, now, new_model)

\* LeadScorer._initialize_model
_initialize_model(self, kind, cache, errors, now, new_model) ==
    IF self.vertical \in DOMAIN cache
       /\ now - cache[self.vertical].time < CACHE_TTL
    THEN LET thr == get_scoring_threshold(self.config)
         IN IF ~thr.ok
            THEN [ok |-> FALSE, error |-> thr.error,
                  self |-> [self EXCEPT !.model = cache[self.vertical].model],
                  cache |-> cache, errors |-> errors]
            ELSE [ok |-> TRUE, value |-> None,
                  self |-> [self EXCEPT !.model = cache[self.vertical].model,
                                        !.config = thr.self,
                                        !.threshold = thr.value],
                  cache |-> cache, errors |-> errors]
    ELSE reload_model(self, kind, cache, errors, now, new_model)

\* raw predictions of the model, in hundredths
RawScores == {0 - ScoreMargin, 15, 50, 70, 85, 100 + ScoreMargin}

\* LeadScorer._get_market_conditions at hour and day = weekday()
_get_market_conditions(hour, day) ==
    (IF 9 <= hour /\ hour <= 17 /\ day < 5 THEN {"peak_hours"} ELSE {"off_peak"})
        \cup (IF day >= 5 THEN {"weekend"} ELSE {})

\* what LeadScorer.score_lead returns
ScoreResult(score, price, confidence, importance, threshold) ==
    [score |-> score, price |-> price, confidence |-> confidence,
     feature_importance |-> importance, threshold |-> threshold]
NoScore == ScoreResult(0, 0, 0, EmptyDict, 0)

\* score_lead returning a neutral score where the features of the record
\* cannot be computed, in place of raising
score_lead_lenient(self, lead_data, feat, errors, raw, hour, day, month, in_process) ==
    LET transformed == transform_features(self.feature_engineer, lead_data, TRUE,
                                          feat, in_process)
        after == [self EXCEPT !.feature_engineer = transformed.self]
    IN {[ok |-> TRUE, error |-> "",
         value |-> ScoreResult(50, 7500, 70, EmptyDict, self.threshold),
         self |-> after, feat |-> transformed.cache, errors |-> errors]}

\* LeadScorer.score_lead(lead_data), lead_data given as its frame.  raw is
\* what self._model.predict returns for the features, hour, day and month
\* are datetime.now(); feat is PREPROCESSOR_CACHE, errors SCORING_ERRORS.
\* Gives the possible outcomes (round() decides between two prices at a
\* tie) with the scorer, PREPROCESSOR_CACHE and SCORING_ERRORS after the
\* call; in_process is the way joblib runs the groups of transform_features.
score_lead(self, lead_data, feat, errors, raw, hour, day, month, in_process) ==
    LET transformed == transform_features(self.feature_engineer, lead_data, TRUE,
                                          feat, in_process)
        after == [self EXCEPT !.feature_engineer = transformed.self]
        fail == [ok |-> FALSE, error |-> "ValueError", value |-> NoScore,
                 self |-> after, feat |-> transformed.cache, errors |-> errors + 1]
    IN IF ~transformed.ok THEN {fail}
       ELSE IF self.model = NoModel \/ self.threshold = NoThreshold THEN {fail}
       ELSE {[ok |-> TRUE, error |-> "",
              value |-> ScoreResult(raw, price, _calculate_confidence(raw),
                                    transformed.value.importance, self.threshold),
              self |-> after, feat |-> transformed.cache, errors |-> errors] :
                price \in calculate_price(self.vertical, raw,
                                          _get_market_conditions(hour, day), month)}

\* FeatureEngineer.__init__ up to its first use of the configuration
\* (feature_engineering.py 42-43): ModelConfig defines no get_feature_config
FeatureEngineerInit(vertical) ==
    LET cfg == ModelConfigInit(vertical, EmptyDict, TRUE)
    IN IF ~cfg.ok THEN Raise(cfg.error) ELSE Raise("AttributeError")

\* LeadScorer.__init__(vertical)
LeadScorerInit(vertical, kind, cache, errors, now, new_model) ==
    LET cfg == ModelConfigInit(vertical, EmptyDict, TRUE)
        fe == FeatureEngineerInit(vertical)
    IN IF ~cfg.ok
       THEN [ok |-> FALSE, error |-> cfg.error, cache |-> cache, errors |-> errors]
       ELSE IF ~fe.ok
       THEN [ok |-> FALSE, error |-> fe.error, cache |-> cache, errors |-> errors]
       ELSE _initialize_model(ScorerObject(cfg.value, NoModel, NoThreshold),
                              kind, cache, errors, now, new_model)

(***************************************************************************)
(* ScorerSpec: the methods of one LeadScorer object.  The object starts    *)
(* either as _initialize_model leaves it (a model, the configured          *)
(* threshold, a MODEL_CACHE entry for its vertical, held by this scorer    *)
(* or by a later one) or as __init__ has it before the first load (no      *)
(* model, no threshold).                                                   *)
(***************************************************************************)
MaxLoads == 2
MaxClock == 2
MaxFailures == 2

\* thresholds passed to update_threshold, in hundredths
ThresholdInputs == {-1, 0, 29, 30, 75, 90, 91, 95, 100, 101, 150}

NoCall == [op |-> "none", ok |-> TRUE, value |-> 0, force |-> FALSE]

ScorerInit ==
    /\ \E v \in DOMAIN FEATURE_CONFIG :
          /\ artifact \in [{v} -> ArtifactKinds]
          /\ \/ /\ scorer = ScorerObject(
                       ConfigObject(v, FEATURE_CONFIG[v], TRUE,
                                    Put(EmptyDict, "scoring_threshold",
                                        DEFAULT_SCORING_THRESHOLD),
                                    FirstVersion),
                       1, DEFAULT_SCORING_THRESHOLD)
                /\ MODEL_CACHE \in {Put(EmptyDict, v, CacheEntry(m, 0)) : m \in {1, 2}}
             \/ /\ scorer = ScorerObject(
                       ConfigObject(v, FEATURE_CONFIG[v], TRUE, EmptyDict, FirstVersion),
                       NoModel, NoThreshold)
                /\ MODEL_CACHE = EmptyDict
    /\ SCORING_ERRORS = 0 /\ clock = 0 /\ nextModel = 3
    /\ last = NoCall
    /\ config = None
    /\ SvcIdle /\ PureIdle /\ FeatIdle

ReloadModel ==
    /\ nextModel <= 2 + MaxLoads
    /\ SCORING_ERRORS < MaxFailures
    /\ LET r == reload_model(scorer, artifact[scorer.vertical], MODEL_CACHE,
                             SCORING_ERRORS, clock, nextModel)
       IN /\ scorer' = r.self
          /\ MODEL_CACHE' = r.cache
          /\ SCORING_ERRORS' = r.errors
          /\ nextModel' = IF r.ok THEN nextModel + 1 ELSE nextModel
          /\ last' = [op |-> "reload_model", ok |-> r.ok, value |-> 0, force |-> FALSE]
    /\ UNCHANGED <<featVars, artifact, clock, config, svcVars, pureVars>>

UpdateThreshold ==
    \E new_threshold \in ThresholdInputs, force_update \in BOOLEAN :
        /\ LET r == update_threshold(scorer, new_threshold, force_update)
           IN /\ scorer' = r.self
              /\ last' = [op |-> "update_threshold", ok |-> r.ok,
                          value |-> new_threshold, force |-> force_update]
        /\ UNCHANGED <<featVars, config, globalVars, svcVars, pureVars>>

\* time passes
Tick ==
    /\ clock < MaxClock
    /\ clock' = clock + 1
    /\ last' = NoCall
    /\ UNCHANGED <<featVars, scorer, config, MODEL_CACHE, SCORING_ERRORS, artifact, nextModel,
                   svcVars, pureVars>>

\* the content of the model path changes
ArtifactChange ==
    /\ \E v \in DOMAIN artifact, kind \in ArtifactKinds :
          /\ artifact[v] # kind
          /\ artifact' = [artifact EXCEPT ![v] = kind]
    /\ last' = NoCall
    /\ UNCHANGED <<featVars, scorer, config, MODEL_CACHE, SCORING_ERRORS, clock, nextModel,
                   svcVars, pureVars>>

\* the fields of a LeadScorer before _initialize_model (lead_scorer.py 71-76)
FreshScorer(vertical) ==
    ScorerObject(ConfigObject(vertical, FEATURE_CONFIG[vertical], TRUE, EmptyDict,
                              FirstVersion),
                 NoModel, NoThreshold)

\* LeadScorer(vertical) is called for the vertical of the object at hand
\* (lines 60-79); the new object would replace it when the constructor
\* completes
NewScorer ==
    /\ nextModel <= 2 + MaxLoads
    /\ SCORING_ERRORS < MaxFailures
    /\ LET vertical == scorer.vertical
           r == LeadScorerInit(vertical, artifact[vertical], MODEL_CACHE,
                               SCORING_ERRORS, clock, nextModel)
       IN /\ scorer' = IF r.ok THEN r.self ELSE scorer
          /\ MODEL_CACHE' = r.cache
          /\ SCORING_ERRORS' = r.errors
          /\ nextModel' = IF r.ok /\ r.self.model = nextModel
                          THEN nextModel + 1 ELSE nextModel
          /\ last' = [op |-> "__init__", ok |-> r.ok, value |-> 0, force |-> FALSE]
    /\ UNCHANGED <<featVars, artifact, clock, config, svcVars, pureVars>>

\* scorer._initialize_model() on the object at hand (lines 217-230)
InitializeModel ==
    /\ nextModel <= 2 + MaxLoads
    /\ SCORING_ERRORS < MaxFailures
    /\ LET r == _initialize_model(scorer, artifact[scorer.vertical], MODEL_CACHE,
                                  SCORING_ERRORS, clock, nextModel)
       IN /\ scorer' = r.self
          /\ MODEL_CACHE' = r.cache
          /\ SCORING_ERRORS' = r.errors
          /\ nextModel' = IF r.self.model = nextModel
                          THEN nextModel + 1 ELSE nextModel
          /\ last' = [op |-> "_initialize_model", ok |-> r.ok, value |-> 0,
                      force |-> FALSE]
    /\ UNCHANGED <<featVars, artifact, clock, config, svcVars, pureVars>>

ScorerNext ==
    \/ ReloadModel \/ UpdateThreshold \/ Tick \/ ArtifactChange
    \/ NewScorer \/ InitializeModel

ScorerSpec == ScorerInit /\ [][ScorerNext]_vars

(***************************************************************************)
(* ScoringService (scoring_service.py).                                    *)
(* A caller is an asyncio task.  Its steps are the stretches of a call     *)
(* between the points where the lock is taken and released; any            *)
(* interleaving of these steps is allowed, which includes every schedule   *)
(* of the event loop.                                                      *)
(***************************************************************************)
Callers == {"t1", "t2"}

\* verticals and lead records passed to score_lead: a configured vertical,
\* one the routes accept but FEATURE_CONFIG lacks, and the empty string;
\* an empty record and a complete one
RequestVerticals == {"auto", "health", ""}
LeadData == {"empty", "valid"}

\* the service stops taking score_lead calls for a vertical at this count
MaxErrors == 6

\* LeadScorer defines no get_model_version (called at scoring_service.py
\* 106, 139, 152)
get_model_version(self) == Raise("AttributeError")

\* ModelConfig defines no get_market_adjustments (called at
\* scoring_service.py 148, 179)
get_market_adjustments(self) == Raise("AttributeError")

NoRequest == [op |-> "none", vertical |-> "", data |-> "empty",
              after5 |-> FALSE, open |-> FALSE, first |-> FALSE]

\* history: the values score_lead computed at lines 80-94 before it ended
NoComputed == [reached |-> FALSE, original_score |-> 0, confidence |-> 0,
               score |-> Frac(0, 1), price |-> 0]

NoResult == [kind |-> "none", score |-> Frac(0, 1), confidence |-> 0, price |-> 0,
             model_version |-> "", fallback |-> FALSE, threshold |-> 0,
             error |-> "", used_scorer |-> FALSE,
             status |-> EmptyDict, reloaded |-> {}, computed |-> NoComputed]

\* _get_fallback_score reporting a confidence of the lowest scoring tier
_get_fallback_score_tiered(vertical) ==
    [NoResult EXCEPT !.kind = "fallback", !.score = Frac(1, 2), !.confidence = 70,
                     !.price = 7500, !.model_version = "fallback",
                     !.threshold = Get(thresholds, vertical, 65),
                     !.fallback = TRUE]

\* ScoringService._get_fallback_score
_get_fallback_score(vertical) ==
    [NoResult EXCEPT !.kind = "fallback", !.score = Frac(1, 2), !.confidence = 30,
                     !.price = 7500, !.model_version = "fallback",
                     !.threshold = Get(thresholds, vertical, 65),
                     !.fallback = TRUE]

\* the ValueError score_lead raises from its except branch
ScoringFailed(error, used) ==
    [NoResult EXCEPT !.kind = "error", !.error = error, !.used_scorer = used]

\* _record_error opening the breaker one error late
_record_error_late(counts, open, vertical) ==
    LET n == Get(counts, vertical, 0) + 1
    IN [counts |-> Put(counts, vertical, n),
        open |-> IF n >= 6 THEN Put(open, vertical, TRUE) ELSE open]

\* ScoringService._record_error: _error_counts and _circuit_open after it
_record_error(counts, open, vertical) ==
    LET n == Get(counts, vertical, 0) + 1
    IN [counts |-> Put(counts, vertical, n),
        open |-> IF n >= 5 THEN Put(open, vertical, TRUE) ELSE open]

\* ScoringService._record_success
_record_success(counts, open, vertical) ==
    [counts |-> Put(counts, vertical, 0), open |-> Put(open, vertical, FALSE)]

\* for factor, value in adjustments.items(): if confidence >= 0.8: ... (188-190)
RECURSIVE ApplyAdjustments(_, _, _, _)
ApplyAdjustments(q, adjustments, todo, confidence) ==
    IF todo = {} THEN q
    ELSE LET factor == CHOOSE x \in todo : TRUE
             q2 == IF confidence >= 80
                   THEN Reduce(TimesTenths(q, adjustments[factor]))
                   ELSE q
         IN ApplyAdjustments(q2, adjustments, todo \ {factor}, confidence)

\* np.clip left out
Clip01_unclipped(q) == q

\* np.clip(x, 0.0, 1.0)
Clip01(q) ==
    IF q.n < 0 THEN Frac(0, 1) ELSE IF q.n > q.d THEN Frac(1, 1) ELSE q

\* _apply_market_adjustments applying the factors at any confidence
_apply_market_adjustments_always(vertical, score, confidence) ==
    LET adjustments == Get(market_adjustments, vertical, EmptyDict)
    IN Clip01(ApplyAdjustments(Reduce(Frac(score, 100)), adjustments,
                               DOMAIN adjustments, 90))

\* ScoringService._apply_market_adjustments; score and confidence in
\* hundredths, the result the exact fraction
_apply_market_adjustments(vertical, score, confidence) ==
    LET adjustments == Get(market_adjustments, vertical, EmptyDict)
    IN Clip01(ApplyAdjustments(Reduce(Frac(score, 100)), adjustments,
                               DOMAIN adjustments, confidence))

\* the multipliers of _calculate_price (199-206), in tenths
multipliers ==
    [v \in {"auto", "home", "health", "life", "renters", "commercial"} |->
        CASE v = "auto" -> 10
          [] v = "home" -> 12
          [] v = "health" -> 15
          [] v = "life" -> 18
          [] v = "renters" -> 8
          [] v = "commercial" -> 20]

\* sum(feature_importance.values()), the values in hundredths
RECURSIVE SumValues(_, _)
SumValues(d, todo) ==
    IF todo = {} THEN 0
    ELSE LET k == CHOOSE x \in todo : TRUE
         IN d[k] + SumValues(d, todo \ {k})

\* ScoringService._calculate_price; score a fraction, the result the set of
\* cent values round() can give
_calculate_price(vertical, score, feature_importance) ==
    LET base0 == Reduce(Frac(50 * score.d + 100 * score.n, score.d))
        base1 == Reduce(TimesTenths(base0, Get(multipliers, vertical, 10)))
        count == Cardinality(DOMAIN feature_importance)
        total == SumValues(feature_importance, DOMAIN feature_importance)
        \* 0.9 + (total / count) * 0.2 = (450 * count + total) / (500 * count)
        base2 == IF feature_importance # EmptyDict
                 THEN Reduce(Frac(base1.n * (450 * count + total),
                                  base1.d * 500 * count))
                 ELSE base1
    IN Round2(Clamp(base2))

\* an except branch that raises without recording the error
Fail_uncounted(p, vertical, error, used) ==
    /\ error_counts' = error_counts
    /\ circuit_open' = circuit_open
    /\ streak' = Put(streak, vertical, Get(streak, vertical, 0) + 1)
    /\ res' = [res EXCEPT ![p] = ScoringFailed(error, used)]
    /\ pc' = [pc EXCEPT ![p] = "done"]

\* score_lead's except branch (110-115) for caller p
Fail(p, vertical, error, used) ==
    LET rec == _record_error(error_counts, circuit_open, vertical)
    IN /\ error_counts' = rec.counts
       /\ circuit_open' = rec.open
       /\ streak' = Put(streak, vertical, Get(streak, vertical, 0) + 1)
       /\ res' = [res EXCEPT ![p] = ScoringFailed(error, used)]
       /\ pc' = [pc EXCEPT ![p] = "done"]

\* score_lead from its entry to the lock of _get_scorer (52-77, 171-174)
ScoreLeadEnter(p) ==
    \E vertical \in RequestVerticals, lead_data \in LeadData :
        /\ pc[p] \in {"idle", "done"}
        /\ Get(error_counts, vertical, 0) < MaxErrors
        /\ req' = [req EXCEPT ![p] =
                     [op |-> "score_lead", vertical |-> vertical, data |-> lead_data,
                      after5 |-> Get(streak, vertical, 0) >= 5,
                      open |-> Get(circuit_open, vertical, FALSE),
                      first |-> vertical \notin DOMAIN scorers]]
        /\ IF vertical = "" \/ lead_data = "empty"
           THEN Fail(p, vertical, "ValueError", FALSE)
           ELSE IF Get(circuit_open, vertical, FALSE)
           THEN /\ res' = [res EXCEPT ![p] = _get_fallback_score(vertical)]
                /\ pc' = [pc EXCEPT ![p] = "done"]
                /\ UNCHANGED <<featVars, error_counts, circuit_open, streak>>
           ELSE /\ pc' = [pc EXCEPT ![p] =
                            IF vertical \in DOMAIN scorers THEN "score" ELSE "acquire"]
                /\ res' = [res EXCEPT ![p] = NoResult]
                /\ UNCHANGED <<featVars, error_counts, circuit_open, streak>>
        /\ UNCHANGED <<featVars, scorers, configs, thresholds, market_adjustments, lock, built,
                       globalVars, objVars, pureVars>>

\* a lock that can be taken while it is held
AcquireLock_unguarded(p) ==
    /\ pc[p] \in {"acquire", "racquire"}
    /\ lock' = p
    /\ pc' = [pc EXCEPT ![p] = IF pc[p] = "acquire" THEN "locked" ELSE "reloading"]
    /\ UNCHANGED <<featVars, scorers, configs, thresholds, market_adjustments, error_counts,
                   circuit_open, req, res, streak, built, globalVars, objVars, pureVars>>

\* async with self._lock (174, 127)
AcquireLock(p) ==
    /\ pc[p] \in {"acquire", "racquire"}
    /\ lock = "free"
    /\ lock' = p
    /\ pc' = [pc EXCEPT ![p] = IF pc[p] = "acquire" THEN "locked" ELSE "reloading"]
    /\ UNCHANGED <<featVars, scorers, configs, thresholds, market_adjustments, error_counts,
                   circuit_open, req, res, streak, built, globalVars, objVars, pureVars>>

\* a registration that enters the default threshold of the vertical before
\* it constructs the scorer
Registration_threshold_first(vertical) ==
    LET made == LeadScorerInit(vertical, Get(artifact, vertical, "missing"),
                               MODEL_CACHE, SCORING_ERRORS, clock, nextModel)
    IN [ok |-> FALSE, error |-> made.error, built |-> FALSE,
        scorers |-> scorers, configs |-> configs,
        thresholds |-> Put(thresholds, vertical, DEFAULT_SCORING_THRESHOLD),
        cache |-> made.cache, errors |-> made.errors]

\* the registration of _get_scorer (176-179): the registry after it and
\* whether it completed
Registration(vertical) ==
    LET made == LeadScorerInit(vertical, Get(artifact, vertical, "missing"),
                               MODEL_CACHE, SCORING_ERRORS, clock, nextModel)
    IN IF ~made.ok
       THEN [ok |-> FALSE, error |-> made.error, built |-> FALSE,
             scorers |-> scorers, configs |-> configs, thresholds |-> thresholds,
             cache |-> made.cache, errors |-> made.errors]
       ELSE LET scorers2 == Put(scorers, vertical, made.self)
                cfg == ModelConfigInit(vertical, EmptyDict, TRUE)
            IN IF ~cfg.ok
               THEN [ok |-> FALSE, error |-> cfg.error, built |-> TRUE,
                     scorers |-> scorers2, configs |-> configs,
                     thresholds |-> thresholds,
                     cache |-> made.cache, errors |-> made.errors]
               ELSE LET thr == get_scoring_threshold(cfg.value)
                        configs2 == Put(configs, vertical, thr.self)
                    IN IF ~thr.ok
                       THEN [ok |-> FALSE, error |-> thr.error, built |-> TRUE,
                             scorers |-> scorers2, configs |-> configs2,
                             thresholds |-> thresholds,
                             cache |-> made.cache, errors |-> made.errors]
                       ELSE \* line 179 raises
                            [ok |-> FALSE,
                             error |-> get_market_adjustments(thr.self).error,
                             built |-> TRUE,
                             scorers |-> scorers2, configs |-> configs2,
                             thresholds |-> Put(thresholds, vertical, thr.value),
                             cache |-> made.cache, errors |-> made.errors]

\* a registration that keeps the lock when it raises
GetScorerLocked_holding(p) ==
    /\ pc[p] = "locked"
    /\ lock' = IF req[p].vertical \in DOMAIN scorers THEN "free" ELSE lock
    /\ LET vertical == req[p].vertical
       IN IF vertical \in DOMAIN scorers
          THEN /\ pc' = [pc EXCEPT ![p] = "score"]
               /\ UNCHANGED <<featVars, scorers, configs, thresholds, error_counts, circuit_open,
                              res, streak, built, MODEL_CACHE, SCORING_ERRORS,
                              nextModel>>
          ELSE LET r == Registration(vertical)
               IN /\ scorers' = r.scorers
                  /\ configs' = r.configs
                  /\ thresholds' = r.thresholds
                  /\ MODEL_CACHE' = r.cache
                  /\ SCORING_ERRORS' = r.errors
                  /\ nextModel' = IF r.built /\ r.scorers[vertical].model = nextModel
                                  THEN nextModel + 1 ELSE nextModel
                  /\ built' = IF r.built
                              THEN Put(built, vertical, Get(built, vertical, 0) + 1)
                              ELSE built
                  /\ Fail(p, vertical, r.error, TRUE)
    /\ UNCHANGED <<featVars, market_adjustments, req, artifact, clock, objVars, pureVars>>

\* _get_scorer inside the lock (175-181), the lock released on the way out
GetScorerLocked(p) ==
    /\ pc[p] = "locked"
    /\ lock' = "free"
    /\ LET vertical == req[p].vertical
       IN IF vertical \in DOMAIN scorers
          THEN /\ pc' = [pc EXCEPT ![p] = "score"]
               /\ UNCHANGED <<featVars, scorers, configs, thresholds, error_counts, circuit_open,
                              res, streak, built, MODEL_CACHE, SCORING_ERRORS,
                              nextModel>>
          ELSE LET r == Registration(vertical)
               IN /\ scorers' = r.scorers
                  /\ configs' = r.configs
                  /\ thresholds' = r.thresholds
                  /\ MODEL_CACHE' = r.cache
                  /\ SCORING_ERRORS' = r.errors
                  /\ nextModel' = IF r.built /\ r.scorers[vertical].model = nextModel
                                  THEN nextModel + 1 ELSE nextModel
                  /\ built' = IF r.built
                              THEN Put(built, vertical, Get(built, vertical, 0) + 1)
                              ELSE built
                  /\ Fail(p, vertical, r.error, TRUE)
    /\ UNCHANGED <<featVars, market_adjustments, req, artifact, clock, objVars, pureVars>>

\* the frame LeadScorer.score_lead builds from the record of a request
RecordFrame(vertical, lead_data) ==
    IF lead_data = "valid" THEN LeadFrame(RequiredColumns(vertical), 1, TRUE)
    ELSE LeadFrame({}, 0, TRUE)

\* the end of score_lead after the price is computed (96-115): the success is
\* recorded, then the result is assembled, which calls get_model_version
FinishScore(p, vertical, scored, adjusted_score, price) ==
    LET success == _record_success(error_counts, circuit_open, vertical)
        version == get_model_version(scorers[vertical])
        computed == [reached |-> TRUE, original_score |-> scored.score,
                     confidence |-> scored.confidence,
                     score |-> adjusted_score, price |-> price]
    IN IF version.ok
       THEN /\ error_counts' = success.counts
            /\ circuit_open' = success.open
            /\ streak' = Put(streak, vertical, 0)
            /\ res' = [res EXCEPT ![p] =
                          [NoResult EXCEPT !.kind = "result",
                                           !.score = adjusted_score,
                                           !.confidence = scored.confidence,
                                           !.price = price,
                                           !.model_version = version.value,
                                           !.threshold = Get(thresholds, vertical, 65),
                                           !.used_scorer = TRUE,
                                           !.computed = computed]]
            /\ pc' = [pc EXCEPT ![p] = "done"]
       ELSE LET rec == _record_error(success.counts, success.open, vertical)
            IN /\ error_counts' = rec.counts
               /\ circuit_open' = rec.open
               /\ streak' = Put(streak, vertical, Get(streak, vertical, 0) + 1)
               /\ res' = [res EXCEPT ![p] =
                             [ScoringFailed(version.error, TRUE)
                                 EXCEPT !.computed = computed]]
               /\ pc' = [pc EXCEPT ![p] = "done"]

\* score_lead from the call of the scorer to its end (80-115).  The hour,
\* weekday and month only enter the scorer's own price, which the service
\* replaces by its own.
ScoreLead(p) ==
    /\ pc[p] = "score"
    /\ LET vertical == req[p].vertical
       IN \E raw \in RawScores, in_process \in BOOLEAN :
             \E r \in score_lead(scorers[vertical],
                                 RecordFrame(vertical, req[p].data),
                                 PREPROCESSOR_CACHE, SCORING_ERRORS, raw, 9, 4, 1,
                                 in_process) :
                /\ scorers' = [scorers EXCEPT ![vertical] = r.self]
                /\ PREPROCESSOR_CACHE' = r.feat
                /\ SCORING_ERRORS' = r.errors
                /\ IF ~r.ok
                   THEN Fail(p, vertical, r.error, TRUE)
                   ELSE LET adjusted_score ==
                                _apply_market_adjustments(vertical, r.value.score,
                                                          r.value.confidence)
                        IN \E price \in _calculate_price(vertical, adjusted_score,
                                                        r.value.feature_importance) :
                              FinishScore(p, vertical, r.value, adjusted_score, price)
    /\ UNCHANGED <<engineer, FEATURE_IMPORTANCE, configs, thresholds,
                   market_adjustments, lock, req, built, MODEL_CACHE, artifact,
                   clock, nextModel, objVars, pureVars>>

\* an entry of the status map reload_models returns
ReloadStatus(success, version, threshold, error) ==
    [success |-> success, version |-> version, threshold |-> threshold,
     error |-> error]

\* one turn of the loop of reload_models (132-163), for vertical, on the
\* registry, globals and status map st reached so far
ReloadOne(st, vertical) ==
    LET r == reload_model(st.scorers[vertical], Get(artifact, vertical, "missing"),
                          st.cache, st.errors, clock, st.next)
        failed(t, error) ==
            [t EXCEPT !.status = Put(@, vertical, ReloadStatus(FALSE, None, 0, error))]
    IN IF ~r.ok
       THEN failed([st EXCEPT !.scorers[vertical] = r.self, !.cache = r.cache,
                              !.errors = r.errors], r.error)
       ELSE LET st1 == [st EXCEPT !.scorers[vertical] = r.self, !.cache = r.cache,
                                  !.next = @ + 1, !.reloaded = @ \cup {vertical}]
                version == get_model_version(r.self)
                cfg == ModelConfigInit(vertical, EmptyDict, TRUE)
            IN IF ~version.ok THEN failed(st1, version.error)
               ELSE IF ~cfg.ok THEN failed(st1, cfg.error)
               ELSE LET thr == get_scoring_threshold(cfg.value)
                        st2 == [st1 EXCEPT !.configs = Put(@, vertical, thr.self)]
                        adj == get_market_adjustments(thr.self)
                    IN IF ~thr.ok THEN failed(st2, thr.error)
                       ELSE LET st3 == [st2 EXCEPT !.thresholds =
                                                      Put(@, vertical, thr.value)]
                            IN IF ~adj.ok THEN failed(st3, adj.error)
                               ELSE [st3 EXCEPT
                                        !.market_adjustments = Put(@, vertical, adj.value),
                                        !.status = Put(@, vertical,
                                            ReloadStatus(r.value, version.value,
                                                         thr.value, ""))]

\* for vertical in self._scorers.keys()
RECURSIVE ReloadAll(_, _)
ReloadAll(st, todo) ==
    IF todo = {} THEN st
    ELSE LET vertical == CHOOSE v \in todo : TRUE
         IN ReloadAll(ReloadOne(st, vertical), todo \ {vertical})

\* a caller starts reload_models (117-127)
ReloadEnter(p) ==
    /\ pc[p] \in {"idle", "done"}
    /\ nextModel <= 2 + MaxLoads
    /\ SCORING_ERRORS < MaxFailures
    /\ req' = [req EXCEPT ![p] = [NoRequest EXCEPT !.op = "reload_models"]]
    /\ res' = [res EXCEPT ![p] = NoResult]
    /\ pc' = [pc EXCEPT ![p] = "racquire"]
    /\ UNCHANGED <<featVars, scorers, configs, thresholds, market_adjustments, error_counts,
                   circuit_open, lock, streak, built, globalVars, objVars, pureVars>>

\* a reload that closes the breakers of the verticals it reloaded
ReloadRun_resetting(p) ==
    /\ pc[p] = "reloading"
    /\ LET st == ReloadAll([scorers |-> scorers, configs |-> configs,
                            thresholds |-> thresholds,
                            market_adjustments |-> market_adjustments,
                            cache |-> MODEL_CACHE, errors |-> SCORING_ERRORS,
                            next |-> nextModel, status |-> EmptyDict,
                            reloaded |-> {}],
                           DOMAIN scorers)
       IN /\ scorers' = st.scorers
          /\ configs' = st.configs
          /\ thresholds' = st.thresholds
          /\ market_adjustments' = st.market_adjustments
          /\ MODEL_CACHE' = st.cache
          /\ SCORING_ERRORS' = st.errors
          /\ nextModel' = st.next
          /\ res' = [res EXCEPT ![p] = [NoResult EXCEPT !.kind = "reload",
                                                       !.status = st.status,
                                                       !.reloaded = st.reloaded]]
          /\ error_counts' = DictUpdate(error_counts, [v \in st.reloaded |-> 0])
          /\ circuit_open' = DictUpdate(circuit_open, [v \in st.reloaded |-> FALSE])
    /\ lock' = "free"
    /\ pc' = [pc EXCEPT ![p] = "done"]
    /\ UNCHANGED <<featVars, req, streak, built, artifact, clock, objVars, pureVars>>

\* reload_models inside the lock (128-165), the lock released on return
ReloadRun(p) ==
    /\ pc[p] = "reloading"
    /\ LET st == ReloadAll([scorers |-> scorers, configs |-> configs,
                            thresholds |-> thresholds,
                            market_adjustments |-> market_adjustments,
                            cache |-> MODEL_CACHE, errors |-> SCORING_ERRORS,
                            next |-> nextModel, status |-> EmptyDict,
                            reloaded |-> {}],
                           DOMAIN scorers)
       IN /\ scorers' = st.scorers
          /\ configs' = st.configs
          /\ thresholds' = st.thresholds
          /\ market_adjustments' = st.market_adjustments
          /\ MODEL_CACHE' = st.cache
          /\ SCORING_ERRORS' = st.errors
          /\ nextModel' = st.next
          /\ res' = [res EXCEPT ![p] = [NoResult EXCEPT !.kind = "reload",
                                                       !.status = st.status,
                                                       !.reloaded = st.reloaded]]
    /\ lock' = "free"
    /\ pc' = [pc EXCEPT ![p] = "done"]
    /\ UNCHANGED <<featVars, error_counts, circuit_open, req, streak, built, artifact, clock,
                   objVars, pureVars>>

(***************************************************************************)
(* Spec: the service from ScoringService() on.                             *)
(***************************************************************************)
Init ==
    /\ scorers = EmptyDict /\ configs = EmptyDict
    /\ thresholds = EmptyDict /\ market_adjustments = EmptyDict
    /\ error_counts = EmptyDict /\ circuit_open = EmptyDict
    /\ lock = "free"
    /\ pc = [p \in Callers |-> "idle"]
    /\ req = [p \in Callers |-> NoRequest]
    /\ res = [p \in Callers |-> NoResult]
    /\ streak = EmptyDict /\ built = EmptyDict
    /\ MODEL_CACHE = EmptyDict /\ SCORING_ERRORS = 0 /\ clock = 0 /\ nextModel = 1
    /\ artifact \in [{"auto"} -> {"missing", "booster"}]
    /\ ObjIdle /\ PureIdle /\ FeatIdle

Next ==
    \E p \in Callers :
        \/ ScoreLeadEnter(p)
        \/ AcquireLock(p)
        \/ GetScorerLocked(p)
        \/ ReloadEnter(p)
        \/ ReloadRun(p)

Spec == Init /\ [][Next]_vars

(***************************************************************************)
(* ReloadSpec: reload_models over any registry.  No registration can       *)
(* complete under Spec, so the registry starts with any set of the         *)
(* configured verticals registered as lines 176-178 register them: a       *)
(* loaded scorer, its configuration and threshold, and the MODEL_CACHE     *)
(* entry of the load.                                                      *)
(***************************************************************************)
LoadedConfig(v) ==
    ConfigObject(v, FEATURE_CONFIG[v], TRUE,
                 Put(EmptyDict, "scoring_threshold", DEFAULT_SCORING_THRESHOLD),
                 FirstVersion)
FirstModel(v) == IF v = "auto" THEN 1 ELSE 2

ReloadInit ==
    /\ \E registered \in SUBSET (DOMAIN FEATURE_CONFIG) :
          /\ scorers = [v \in registered |->
                          ScorerObject(LoadedConfig(v), FirstModel(v),
                                       DEFAULT_SCORING_THRESHOLD)]
          /\ configs = [v \in registered |-> LoadedConfig(v)]
          /\ thresholds = [v \in registered |-> DEFAULT_SCORING_THRESHOLD]
          /\ MODEL_CACHE = [v \in registered |-> CacheEntry(FirstModel(v), 0)]
    /\ market_adjustments = EmptyDict
    /\ error_counts = EmptyDict /\ circuit_open = EmptyDict
    /\ lock = "free"
    /\ pc = [p \in Callers |-> "idle"]
    /\ req = [p \in Callers |-> NoRequest]
    /\ res = [p \in Callers |-> NoResult]
    /\ streak = EmptyDict /\ built = EmptyDict
    /\ SCORING_ERRORS = 0 /\ clock = 0 /\ nextModel = 3
    /\ artifact \in [DOMAIN FEATURE_CONFIG -> ArtifactKinds]
    /\ scorer = None /\ config = None /\ last = NoCall
    /\ PureIdle /\ FeatIdle

ReloadNext ==
    \/ \E p \in Callers : ReloadEnter(p) \/ AcquireLock(p) \/ ReloadRun(p)
    \/ ArtifactChange
    \/ Tick

ReloadSpec == ReloadInit /\ [][ReloadNext]_vars

(***************************************************************************)
(* ServiceSpec: score_lead and reload_models over a registry that holds    *)
(* scorers.  Both configured verticals start registered as lines 176-179   *)
(* would register them, with a market adjustment entry (factor name ->     *)
(* multiplier in tenths) each, and PREPROCESSOR_CACHE starts empty or with *)
(* the result of the complete auto record.  The calls are those for a      *)
(* registered vertical; Spec has the others.  A vertical takes calls until *)
(* MaxErrors of them have failed in a row.                                 *)
(***************************************************************************)
AdjustmentSets ==
    {EmptyDict, [peak_hours |-> 12], [off_peak |-> 9, weekend |-> 11]}

ServiceInit ==
    /\ \E registered \in {DOMAIN FEATURE_CONFIG}, adj \in AdjustmentSets :
          /\ scorers = [v \in registered |->
                          ScorerObject(LoadedConfig(v), FirstModel(v),
                                       DEFAULT_SCORING_THRESHOLD)]
          /\ configs = [v \in registered |-> LoadedConfig(v)]
          /\ thresholds = [v \in registered |-> DEFAULT_SCORING_THRESHOLD]
          /\ MODEL_CACHE = [v \in registered |-> CacheEntry(FirstModel(v), 0)]
          /\ market_adjustments = [v \in registered |-> adj]
    /\ PREPROCESSOR_CACHE \in
          {EmptyDict,
           Put(EmptyDict, _generate_cache_key(RecordFrame("auto", "valid")),
               FeatureResult(_process_feature_group(EngineerObject("auto", TRUE),
                                                    RecordFrame("auto", "valid")).value,
                             EmptyDict))}
    /\ engineer = None /\ FEATURE_IMPORTANCE = EmptyDict
    /\ error_counts = EmptyDict /\ circuit_open = EmptyDict
    /\ lock = "free"
    /\ pc = [p \in Callers |-> "idle"]
    /\ req = [p \in Callers |-> NoRequest]
    /\ res = [p \in Callers |-> NoResult]
    /\ streak = EmptyDict /\ built = EmptyDict
    /\ SCORING_ERRORS = 0 /\ clock = 0 /\ nextModel = 3
    /\ artifact \in {Put(ok, "auto", kind) :
                         ok \in {[v \in DOMAIN FEATURE_CONFIG |-> "booster"]},
                         kind \in {"booster", "unreadable"}}
    /\ scorer = None /\ config = None /\ last = NoCall
    /\ PureIdle

ServiceNext ==
    \E p \in Callers :
        \/ /\ ScoreLeadEnter(p)
           /\ req'[p].vertical \in DOMAIN scorers
           /\ SCORING_ERRORS < MaxFailures
           /\ Get(streak, req'[p].vertical, 0) < MaxErrors
        \/ AcquireLock(p)
        \/ ScoreLead(p)
        \/ ReloadEnter(p)
        \/ ReloadRun(p)

ServiceSpec == ServiceInit /\ [][ServiceNext]_vars

(***************************************************************************)
(* LockSpec: the lock of the service.  auto starts registered and no other *)
(* vertical; callers score leads for auto, which finds its scorer at line  *)
(* 173, and for health, which goes through the lock at line 174 to         *)
(* register a scorer, and reload the models under the lock of line 127.    *)
(***************************************************************************)
LockInit ==
    /\ \E registered \in {{"auto"}} :
          /\ scorers = [v \in registered |->
                          ScorerObject(LoadedConfig(v), FirstModel(v),
                                       DEFAULT_SCORING_THRESHOLD)]
          /\ configs = [v \in registered |-> LoadedConfig(v)]
          /\ thresholds = [v \in registered |-> DEFAULT_SCORING_THRESHOLD]
          /\ MODEL_CACHE = [v \in registered |-> CacheEntry(FirstModel(v), 0)]
    /\ market_adjustments = EmptyDict
    /\ FeatIdle
    /\ error_counts = EmptyDict /\ circuit_open = EmptyDict
    /\ lock = "free"
    /\ pc = [p \in Callers |-> "idle"]
    /\ req = [p \in Callers |-> NoRequest]
    /\ res = [p \in Callers |-> NoResult]
    /\ streak = EmptyDict /\ built = EmptyDict
    /\ SCORING_ERRORS = 0 /\ clock = 0 /\ nextModel = 3
    /\ artifact \in [{"auto"} -> {"booster", "unreadable"}]
    /\ scorer = None /\ config = None /\ last = NoCall
    /\ PureIdle

LockNext ==
    \E p \in Callers :
        \/ /\ ScoreLeadEnter(p)
           /\ req'[p].vertical # "" /\ req'[p].data = "valid"
           /\ SCORING_ERRORS < MaxFailures
           /\ Get(streak, req'[p].vertical, 0) < MaxErrors
        \/ AcquireLock(p)
        \/ GetScorerLocked(p)
        \/ ScoreLead(p)
        \/ ReloadEnter(p)
        \/ ReloadRun(p)

LockSpec == LockInit /\ [][LockNext]_vars

\* LockSpec under the scheduling of the event loop: a task that can run is
\* run, and asyncio.Lock wakes its waiters in the order they arrived, so a
\* task waiting for the lock gets it when it is free again and again.
LockFairSpec ==
    /\ LockSpec
    /\ \A p \in Callers :
          /\ SF_vars(AcquireLock(p))
          /\ WF_vars(GetScorerLocked(p))
          /\ WF_vars(ScoreLead(p))
          /\ WF_vars(ReloadRun(p))

(***************************************************************************)
(* OwnerSpec: the LeadScorer objects of a process.  The registry of the    *)
(* service holds a scorer for each configured vertical, loaded at time 0,  *)
(* and a further LeadScorer object starts with the fields it has before    *)
(* _initialize_model; its _initialize_model runs (again and again) while   *)
(* the service reloads its models and time passes.                         *)
(***************************************************************************)
OwnerInit ==
    /\ \E registered \in {DOMAIN FEATURE_CONFIG} :
          /\ scorers = [v \in registered |->
                          ScorerObject(LoadedConfig(v), FirstModel(v),
                                       DEFAULT_SCORING_THRESHOLD)]
          /\ configs = [v \in registered |-> LoadedConfig(v)]
          /\ thresholds = [v \in registered |-> DEFAULT_SCORING_THRESHOLD]
          /\ MODEL_CACHE = [v \in registered |-> CacheEntry(FirstModel(v), 0)]
    /\ market_adjustments = EmptyDict
    /\ error_counts = EmptyDict /\ circuit_open = EmptyDict
    /\ lock = "free"
    /\ pc = [p \in Callers |-> "idle"]
    /\ req = [p \in Callers |-> NoRequest]
    /\ res = [p \in Callers |-> NoResult]
    /\ streak = EmptyDict /\ built = EmptyDict
    /\ SCORING_ERRORS = 0 /\ clock = 0 /\ nextModel = 3
    /\ artifact \in [DOMAIN FEATURE_CONFIG -> {"booster", "missing"}]
    /\ \E v \in DOMAIN FEATURE_CONFIG : scorer = FreshScorer(v)
    /\ config = None /\ last = NoCall
    /\ PureIdle /\ FeatIdle

OwnerNext ==
    \/ \E p \in Callers : ReloadEnter(p) \/ AcquireLock(p) \/ ReloadRun(p)
    \/ InitializeModel
    \/ Tick

OwnerSpec == OwnerInit /\ [][OwnerNext]_vars

(***************************************************************************)
(* FeatureSpec: the methods of one FeatureEngineer object and              *)
(* LeadScorer.score_lead of the scorer that owns it.  The engineer starts  *)
(* with the fields a completed __init__ would hold for its vertical.       *)
(* The variable engineer and scorer.feature_engineer are that one object,  *)
(* so every step leaves them equal.  PREPROCESSOR_CACHE is a module global *)
(* shared by every engineer of the process; it starts empty, as the module *)
(* defines it (line 23).                                                   *)
(***************************************************************************)
\* column sets of the lead frames that are complete for one vertical or for
\* both
LeadColumns ==
    {RequiredColumns("auto"), RequiredColumns("home"),
     RequiredColumns("auto") \cup RequiredColumns("home")}

\* column sets that are complete for no vertical: a single column, and the
\* columns of a vertical but for one numerical, categorical or text column
PartialColumns ==
    {{"age"}} \cup {RequiredColumns("auto") \ {c} :
                       c \in {"age", "usage_type", "location"}}

\* the lead frames: the complete ones with text cells of few tokens and
\* with cells that are or are not numbers, the incomplete ones, and the
\* complete records with -1 in the numerical cells
LeadFrames ==
    {LeadFrame(cols, t, n) : cols \in LeadColumns, t \in 0 .. MaxTokens, n \in BOOLEAN}
        \cup {LeadFrame(cols, 1, TRUE) : cols \in PartialColumns}
        \cup {WithNumber(LeadFrame(RequiredColumns(v), 1, TRUE), 0 - 1) :
                 v \in DOMAIN FEATURE_CONFIG}

\* the frames of EngineerSpec: the complete records with text cells of few
\* tokens, of more tokens than TF-IDF keeps and of more than the hashing
\* threshold; with cells that are no numbers; with -1 in the numerical
\* cells; and a record that lacks a column
EngineerFrames ==
    {LeadFrame(RequiredColumns(v), t, TRUE) :
        v \in DOMAIN FEATURE_CONFIG,
        t \in (0 .. MaxTokens) \cup {MAX_FEATURES + 1, HASHING_VOCABULARY + 1}}
        \cup {LeadFrame(RequiredColumns(v), 1, FALSE) : v \in DOMAIN FEATURE_CONFIG}
        \cup {WithNumber(LeadFrame(RequiredColumns(v), 1, TRUE), 0 - 1) :
                 v \in DOMAIN FEATURE_CONFIG}
        \cup {LeadFrame(RequiredColumns("auto") \ {"age"}, 1, TRUE)}

\* the frames the pipeline of an engineer of the vertical can process
Processable(vertical, data) ==
    /\ _validate_input_data(EngineerObject(vertical, TRUE), data).ok
    /\ _process_feature_group(EngineerObject(vertical, TRUE), data).ok

\* PREPROCESSOR_CACHE as it would be with a result stored under the key of
\* the frame (line 110); an argument for transform_features, no state of
\* the module global
CacheHolding(data) ==
    Put(EmptyDict, _generate_cache_key(data), FeatureResult(<<0>>, EmptyDict))

\* batches of one categorical column: the categories A and B, each absent,
\* in one row or in ten rows
CategoryBatches ==
    UNION {[cs -> {1, 10}] : cs \in (SUBSET {"A", "B"}) \ {{}}}

\* importance scores given to update_feature_importance, in hundredths
ImportanceInputs ==
    UNION {[fs -> {10, 50, 150}] : fs \in SUBSET {"age"}}

NoFeatureCall ==
    [op |-> "none", data |-> LeadFrame({}, 0, TRUE), ok |-> TRUE, error |-> "",
     value |-> NoFeatures, hit |-> FALSE, scored |-> NoScore,
     pre_cache |-> EmptyDict, pre_errors |-> 0,
     scores |-> EmptyDict, alerts |-> {}, pre_importance |-> EmptyDict,
     batch |-> EmptyDict, codes |-> EmptyDict]

FeatureInit ==
    /\ \E v \in DOMAIN FEATURE_CONFIG, c \in BOOLEAN :
          /\ engineer = EngineerObject(v, c)
          /\ scorer = [ScorerObject(LoadedConfig(v), FirstModel(v),
                                    DEFAULT_SCORING_THRESHOLD)
                          EXCEPT !.feature_engineer = EngineerObject(v, c)]
          /\ MODEL_CACHE = Put(EmptyDict, v, CacheEntry(FirstModel(v), 0))
          /\ artifact = Put(EmptyDict, v, "booster")
    /\ PREPROCESSOR_CACHE = EmptyDict
    /\ FEATURE_IMPORTANCE = EmptyDict
    /\ last = NoFeatureCall
    /\ config = None
    /\ SCORING_ERRORS = 0 /\ clock = 0 /\ nextModel = 3
    /\ SvcIdle /\ PureIdle

\* engineer.transform_features(data, return_importance) for a frame of
\* frames; owned tells that the engineer is the _feature_engineer of scorer,
\* which then is the object that changes
TransformFrames(frames, owned) ==
    \E data \in frames, return_importance \in BOOLEAN, in_process \in BOOLEAN :
        /\ LET r == transform_features(engineer, data, return_importance,
                                       PREPROCESSOR_CACHE, in_process)
           IN /\ engineer' = r.self
              /\ scorer' = IF owned THEN [scorer EXCEPT !.feature_engineer = r.self]
                           ELSE scorer
              /\ PREPROCESSOR_CACHE' = r.cache
              /\ last' = [NoFeatureCall EXCEPT
                             !.op = "transform_features", !.data = data,
                             !.ok = r.ok, !.error = r.error, !.value = r.value,
                             !.hit = r.hit, !.pre_cache = PREPROCESSOR_CACHE,
                             !.pre_errors = SCORING_ERRORS]
        /\ UNCHANGED <<FEATURE_IMPORTANCE, config, svcVars, globalVars, pureVars>>

\* transform_features of the engineer of scorer
TransformFeatures == TransformFrames(LeadFrames, TRUE)

\* scorer.score_lead(lead_data), which runs transform_features of the
\* engineer of scorer (lead_scorer.py 101)
ScorerScoreLead ==
    \E data \in LeadFrames, raw \in {15, 85}, hour \in {9}, day \in {4},
       month \in {1}, in_process \in BOOLEAN :
        /\ SCORING_ERRORS < MaxFailures
        /\ \E r \in score_lead(scorer, data, PREPROCESSOR_CACHE, SCORING_ERRORS,
                               raw, hour, day, month, in_process) :
              /\ scorer' = r.self
              /\ engineer' = r.self.feature_engineer
              /\ PREPROCESSOR_CACHE' = r.feat
              /\ SCORING_ERRORS' = r.errors
              /\ last' = [NoFeatureCall EXCEPT
                             !.op = "score_lead", !.data = data,
                             !.ok = r.ok, !.error = r.error, !.scored = r.value,
                             !.pre_cache = PREPROCESSOR_CACHE,
                             !.pre_errors = SCORING_ERRORS]
        /\ UNCHANGED <<FEATURE_IMPORTANCE, config, svcVars,
                       MODEL_CACHE, artifact, clock, nextModel, pureVars>>

FeatureNext == TransformFeatures \/ ScorerScoreLead

FeatureSpec == FeatureInit /\ [][FeatureNext]_vars

(***************************************************************************)
(* EngineerSpec: the public methods of one FeatureEngineer object called   *)
(* directly.  The engineer starts as in FeatureSpec, PREPROCESSOR_CACHE    *)
(* and FEATURE_IMPORTANCE start empty as the module defines them.          *)
(***************************************************************************)
EngineerInit ==
    /\ \E v \in DOMAIN FEATURE_CONFIG, c \in BOOLEAN : engineer = EngineerObject(v, c)
    /\ PREPROCESSOR_CACHE = EmptyDict
    /\ FEATURE_IMPORTANCE = EmptyDict
    /\ last = NoFeatureCall
    /\ scorer = None /\ config = None
    /\ GlobalIdle /\ SvcIdle /\ PureIdle

\* engineer.preprocess_text(data[text_features])
PreprocessText ==
    \E data \in EngineerFrames :
        /\ SeqToSet(engineer.feature_config.text_features) \subseteq data.columns
        /\ LET columns == engineer.feature_config.text_features
               r == preprocess_text(columns, data)
           IN /\ last' = [NoFeatureCall EXCEPT
                             !.op = "preprocess_text", !.data = data, !.ok = r.ok,
                             !.error = IF r.ok THEN "" ELSE r.error,
                             !.value = IF r.ok THEN FeatureResult(r.value, EmptyDict)
                                       ELSE NoFeatures,
                             !.pre_cache = PREPROCESSOR_CACHE,
                             !.pre_errors = SCORING_ERRORS]
        /\ UNCHANGED <<featVars, scorer, config, svcVars, globalVars, pureVars>>

\* engineer.preprocess_numerical(data[numerical_features])
PreprocessNumerical ==
    \E data \in EngineerFrames :
        /\ SeqToSet(engineer.feature_config.numerical_features) \subseteq data.columns
        /\ LET r == preprocess_numerical(engineer, data)
           IN last' = [NoFeatureCall EXCEPT
                          !.op = "preprocess_numerical", !.data = data, !.ok = r.ok,
                          !.error = IF r.ok THEN "" ELSE r.error,
                          !.value = IF r.ok THEN FeatureResult(r.value, EmptyDict)
                                    ELSE NoFeatures,
                          !.pre_cache = PREPROCESSOR_CACHE,
                          !.pre_errors = SCORING_ERRORS]
        /\ UNCHANGED <<featVars, scorer, config, svcVars, globalVars, pureVars>>

\* engineer.update_feature_importance(importance_scores)
UpdateFeatureImportance ==
    \E importance_scores \in ImportanceInputs :
        /\ LET r == update_feature_importance(engineer, importance_scores,
                                              FEATURE_IMPORTANCE)
           IN /\ FEATURE_IMPORTANCE' = r.tracker
              /\ last' = [NoFeatureCall EXCEPT
                             !.op = "update_feature_importance", !.ok = r.ok,
                             !.error = r.error, !.scores = importance_scores,
                             !.alerts = r.alerts,
                             !.pre_importance = FEATURE_IMPORTANCE]
        /\ UNCHANGED <<PREPROCESSOR_CACHE, engineer, scorer, config, svcVars,
                       globalVars, pureVars>>

\* engineer.preprocess_categorical(data[[column]]) for the first
\* categorical column of the vertical
PreprocessCategorical ==
    \E batch \in CategoryBatches :
        /\ LET column == Head(engineer.feature_config.categorical_features)
               r == EncodeColumn(engineer, batch)
           IN /\ engineer' = [engineer EXCEPT !.encoders = Put(@, column, r.classes)]
              /\ last' = [NoFeatureCall EXCEPT
                             !.op = "preprocess_categorical", !.batch = batch,
                             !.codes = r.codes]
        /\ UNCHANGED <<PREPROCESSOR_CACHE, FEATURE_IMPORTANCE, scorer, config,
                       svcVars, globalVars, pureVars>>

EngineerNext ==
    \/ TransformFrames(EngineerFrames, FALSE)
    \/ PreprocessText
    \/ PreprocessNumerical
    \/ PreprocessCategorical
    \/ UpdateFeatureImportance

EngineerSpec == EngineerInit /\ [][EngineerNext]_vars

(***************************************************************************)
(* Properties of the pure computations (PriceSpec).                        *)
(***************************************************************************)
\* C8: calculate_price returns a value in [25.00, 500.00] for every score in
\* [0,1], every vertical, every set of market conditions and every month.
C8_PriceWithinBounds ==
    (pout.op = "price" /\ pin.score \in 0 .. 100)
        => (2500 <= pout.value /\ pout.value <= 50000)

\* a price whose unclamped amount (150 * 2.0 * 1.2 * 0.9 * 1.1 * 1.3 * 1.1
\* = 509.65) exceeds the upper bound
C8_Witness ==
    /\ pout.op = "price" /\ pout.value = 50000
    /\ pin.score = 100 /\ pin.vertical = "commercial" /\ pin.month = 1
    /\ pin.conditions = {"peak_hours", "off_peak", "weekend", "holiday"}

\* The tables of the pricing rule as the specification states them.
RuleVerticalMultiplier(v) ==
    CASE v = "auto" -> 10 [] v = "home" -> 12 [] v = "health" -> 15
      [] v = "life" -> 18 [] v = "renters" -> 8 [] v = "commercial" -> 20
      [] OTHER -> 10
RuleHasFactor(c) == c \in {"peak_hours", "off_peak", "weekend", "holiday"}
RuleConditionFactor(c) ==
    CASE c = "peak_hours" -> 12 [] c = "off_peak" -> 9
      [] c = "weekend" -> 11 [] c = "holiday" -> 13
RECURSIVE RuleProduct(_)
RuleProduct(cs) ==
    IF cs = {} THEN 1
    ELSE LET c == CHOOSE x \in cs : TRUE
         IN RuleConditionFactor(c) * RuleProduct(cs \ {c})
\* numerator and denominator of (50 + 100*score) * multiplier * factors * seasonal
RuleTabled(i) == {c \in i.conditions : RuleHasFactor(c)}
RuleNum(i) ==
    (50 + i.score) * RuleVerticalMultiplier(i.vertical) * RuleProduct(RuleTabled(i))
        * (IF i.month \in {1, 4, 7, 10} THEN 11 ELSE 10)
RuleDen(i) == Pow10(2 + Cardinality(RuleTabled(i)))
\* cents is the amount n/d clamped to [25, 500] and rounded to the cent
IsRoundedClamp(cents, n, d) ==
    IF n < 25 * d THEN cents = 2500
    ELSE IF n > 500 * d THEN cents = 50000
    ELSE LET off == cents - 100 * (n \div d)
         IN off \in -1 .. 101 /\ 2 * Abs(off * d - 100 * (n % d)) <= d

\* C9: calculate_price equals round2(clamp((50 + 100*score) * vertical
\* multiplier * product of the tabled condition factors * seasonal, 25, 500)),
\* the clamp applied last; auto at score 0.85 without conditions gives 135.00
\* outside the seasonal months and 148.50 inside them.
C9_PriceFormula ==
    pout.op = "price" =>
        /\ IsRoundedClamp(pout.value, RuleNum(pin), RuleDen(pin))
        /\ (pin.vertical = "auto" /\ pin.score = 85 /\ pin.conditions = {})
              => pout.value = (IF pin.month \in {1, 4, 7, 10} THEN 14850 ELSE 13500)

C9_Witness ==
    /\ pout.op = "price" /\ pout.value = 14850
    /\ pin.vertical = "auto" /\ pin.score = 85 /\ pin.conditions = {}
    /\ pin.month = 4

\* C10: confidence is 0.9 when score > 0.8 or score < 0.2, 0.7 when
\* 0.4 <= score <= 0.6, and 0.8 otherwise; 0.8 and 0.2 give 0.8, 0.4 and 0.6
\* give 0.7.
C10_ConfidenceTiers ==
    pout.op = "confidence" =>
        /\ (pin.score > 80 \/ pin.score < 20) => pout.value = 90
        /\ (pin.score >= 40 /\ pin.score <= 60) => pout.value = 70
        /\ (pin.score \in (20 .. 39) \cup (61 .. 80)) => pout.value = 80
        /\ pin.score \in {20, 80} => pout.value = 80
        /\ pin.score \in {40, 60} => pout.value = 70
        /\ pin.score = 85 => pout.value = 90
        /\ pin.score = 50 => pout.value = 70
        /\ pin.score = 70 => pout.value = 80

C10_Witness == pout.op = "confidence" /\ pin.score = 80 /\ pout.value = 80

(***************************************************************************)
(* Properties of ModelConfig (ConfigSpec).                                 *)
(***************************************************************************)
\* C6: whenever update_config fails (key validation, applying, or the
\* requested persist step), the configuration contents, the version and the
\* cached derived values all equal their values before the call.
C6_UpdateAllOrNothing ==
    (last.op = "update_config" /\ ~last.ok) =>
        /\ config.config = last.pre.config
        /\ config.version = last.pre.version
        /\ config.cache = last.pre.cache

\* C24 as stated: in every state of a ModelConfig after its construction and
\* any sequence of update_config calls, the five required keys are present,
\* each holds a list or a dict, and the key set of the configuration is the
\* default key set of the vertical.
C24_ConfigWellFormed ==
    /\ RequiredKeys \subseteq DOMAIN config.config
    /\ \A key \in RequiredKeys : IsContainer(config.config[key])
    /\ DOMAIN config.config = DOMAIN FEATURE_CONFIG[config.vertical]

\* C24, amended: ... the five required keys are present and the key set of
\* the configuration is the default key set of the vertical (update_config
\* checks the keys it is given, not the kind of their values).
C24_ConfigKeysKept ==
    /\ RequiredKeys \subseteq DOMAIN config.config
    /\ DOMAIN config.config = DOMAIN FEATURE_CONFIG[config.vertical]

\* an update has replaced the value of a required key by a scalar, and an
\* update with a key outside the default key set has failed
C24_Witness ==
    /\ last.op = "update_config" /\ ~last.ok
    /\ config.config["feature_weights"] = "scalar"
    /\ config.version > FirstVersion

\* C25: the version of a ModelConfig rises by exactly 0.1 on each
\* successful update_config, which also empties the cache of derived
\* values, and does not change on get_scoring_threshold, get_model_path or
\* a failed update_config.
C25_VersionMonotonic ==
    /\ (last.op = "update_config" /\ last.ok)
          => config.version = last.pre.version + 1 /\ config.cache = EmptyDict
    /\ last.op \in {"get_scoring_threshold", "get_model_path"}
          => config.version = last.pre.version
    /\ (last.op = "update_config" /\ ~last.ok)
          => config.version = last.pre.version

\* the verticals the service is specified for
SupportedVerticals == {"auto", "home", "health", "life", "renters", "commercial"}

\* C12: constructing the configuration succeeds for every vertical of
\* {auto, home, health, life, renters, commercial}, and its threshold is then
\* in [0,1]; constructing it for any other vertical name fails.
C12_SupportedVerticalsConstruct ==
    last.op = "__init__" =>
        /\ last.ok <=> last.vertical \in SupportedVerticals
        /\ last.ok => /\ config.vertical = last.vertical
                      /\ get_scoring_threshold(config).ok
                      /\ get_scoring_threshold(config).value \in 0 .. 100

(***************************************************************************)
(* Properties of LeadScorer (ScorerSpec).                                  *)
(***************************************************************************)
\* C5: reload_model fails exactly when the model path is missing, cannot be
\* loaded or holds no valid model; a failed reload raises, adds one to the
\* error counter and leaves the scorer's model, its threshold and the
\* MODEL_CACHE entry of the vertical as they were before the call.
C5_FailedReloadKeepsModel ==
    [][/\ last'.op = "reload_model"
            => (last'.ok <=> artifact[scorer.vertical] = "booster")
       /\ (last'.op = "reload_model" /\ ~last'.ok)
            => /\ scorer'.model = scorer.model
               /\ scorer'.threshold = scorer.threshold
               /\ MODEL_CACHE' = MODEL_CACHE
               /\ SCORING_ERRORS' = SCORING_ERRORS + 1]_vars

\* a reload has failed on a scorer that holds a model, and the model is
\* still there
C5_Witness ==
    /\ last.op = "reload_model" /\ ~last.ok
    /\ scorer.model # NoModel
    /\ scorer.vertical \in DOMAIN MODEL_CACHE
    /\ SCORING_ERRORS > 0

\* C15: a LeadScorer under construction adopts the MODEL_CACHE entry of its
\* vertical and the configured threshold when the entry is strictly less
\* than one hour (CACHE_TTL clock units) old, without reading the model path
\* and without changing the entry; without an entry, or with one that is one
\* hour old or more, it performs a full reload from the model path.
C15_ConstructionConsultsCache ==
    [][last'.op = "__init__" =>
          LET v == scorer.vertical
              fresh == v \in DOMAIN MODEL_CACHE
                          /\ clock - MODEL_CACHE[v].time < 2
          IN /\ fresh =>
                   /\ last'.ok
                   /\ scorer'.model = MODEL_CACHE[v].model
                   /\ scorer'.threshold = DEFAULT_SCORING_THRESHOLD
                   /\ MODEL_CACHE' = MODEL_CACHE
                   /\ nextModel' = nextModel
                   /\ SCORING_ERRORS' = SCORING_ERRORS
             /\ ~fresh =>
                   /\ last'.ok <=> artifact[v] = "booster"
                   /\ last'.ok =>
                         /\ scorer'.model = nextModel
                         /\ nextModel' = nextModel + 1
                         /\ MODEL_CACHE'[v] = CacheEntry(nextModel, clock)
                         /\ scorer'.threshold = DEFAULT_SCORING_THRESHOLD
                   /\ ~last'.ok =>
                         /\ SCORING_ERRORS' = SCORING_ERRORS + 1
                         /\ MODEL_CACHE' = MODEL_CACHE]_vars

\* C16: after every successful reload_model the scorer's model is the newly
\* loaded object and not the one held before, the MODEL_CACHE entry of the
\* vertical is (that object, time of the reload), and the scorer's threshold
\* is the threshold its configuration returns.
C16_ReloadInstallsModel ==
    [][(last'.op = "reload_model" /\ last'.ok) =>
          /\ scorer'.model = nextModel
          /\ scorer'.model # scorer.model
          /\ scorer.vertical \in DOMAIN MODEL_CACHE'
          /\ MODEL_CACHE'[scorer.vertical] = CacheEntry(scorer'.model, clock)
          /\ get_scoring_threshold(scorer'.config).ok
          /\ scorer'.threshold = get_scoring_threshold(scorer'.config).value]_vars

\* a second reload, half an hour after the first load, has replaced the
\* model and restamped the cache entry
C16_Witness ==
    /\ last.op = "reload_model" /\ last.ok
    /\ scorer.model = nextModel - 1 /\ scorer.model > 2
    /\ clock = 1
    /\ MODEL_CACHE[scorer.vertical] = CacheEntry(scorer.model, 1)
    /\ scorer.threshold = DEFAULT_SCORING_THRESHOLD

\* the values update_threshold accepts according to the rule
RuleAccepts(value, force) ==
    /\ value >= 0 /\ value <= 100
    /\ force \/ (value >= 30 /\ value <= 90)

\* C7: update_threshold(value, force) fails for every value outside [0,1]
\* with or without force, without force also for every value outside
\* [0.3, 0.9]; otherwise it succeeds and the threshold equals value at once;
\* on every failure the threshold is unchanged.  0.75 unforced and 0.95
\* forced succeed, 1.5 and unforced 0.95 fail.
C7_ThresholdUpdate ==
    [][last'.op = "update_threshold" =>
          /\ last'.ok <=> RuleAccepts(last'.value, last'.force)
          /\ last'.ok => scorer'.threshold = last'.value
          /\ ~last'.ok => scorer'.threshold = scorer.threshold
          /\ (last'.value = 75 /\ ~last'.force) => last'.ok
          /\ (last'.value = 95 /\ last'.force) => last'.ok
          /\ last'.value = 150 => ~last'.ok
          /\ (last'.value = 95 /\ ~last'.force) => ~last'.ok]_vars

C7_Witness ==
    /\ last.op = "update_threshold" /\ last.ok
    /\ last.value = 95 /\ last.force
    /\ scorer.threshold = 95

(***************************************************************************)
(* Properties of ScoringService.                                           *)
(***************************************************************************)
Finished(p, op) == pc[p] = "done" /\ req[p].op = op
IsFallback(r) ==
    /\ r.kind = "fallback" /\ r.score = Frac(1, 2) /\ r.price = 7500 /\ r.fallback
    /\ ~r.used_scorer

\* C1 as stated: once score_lead has failed 5 times in a row for a vertical,
\* the next score_lead call for that vertical returns the fallback result
\* (score 0.5, price 75.00, fallback=true) and does not reach the scorer.
C1_FallbackAfterFiveFailures ==
    \A p \in Callers :
        (Finished(p, "score_lead") /\ req[p].after5) => IsFallback(res[p])

\* C1, amended: ... the next score_lead call for that vertical with a
\* non-empty vertical name and a non-empty record returns the fallback
\* result and does not reach the scorer.
C1_FallbackAfterFiveFailuresNonEmpty ==
    \A p \in Callers :
        (/\ Finished(p, "score_lead") /\ req[p].after5
         /\ req[p].vertical # "" /\ req[p].data # "empty")
            => IsFallback(res[p])

C1_Witness ==
    \E p \in Callers :
        /\ Finished(p, "score_lead") /\ req[p].after5
        /\ req[p].vertical = "auto" /\ req[p].data = "valid"
        /\ streak["auto"] = 5
        /\ IsFallback(res[p])

\* C2: from every state in which the breaker of a vertical is open, a
\* score_lead call with a valid record and a healthy model closes the
\* breaker and resets the consecutive-error counter to 0.
C2_SuccessClosesBreaker ==
    \A p \in Callers :
        (/\ Finished(p, "score_lead") /\ req[p].open
         /\ req[p].vertical \in DOMAIN FEATURE_CONFIG /\ req[p].data = "valid"
         /\ Get(artifact, req[p].vertical, "missing") = "booster")
            => /\ ~Get(circuit_open, req[p].vertical, FALSE)
               /\ Get(error_counts, req[p].vertical, 0) = 0

\* C4: under any interleaving of concurrent first score_lead calls for a
\* vertical, at most one LeadScorer is constructed and registered for it,
\* and every one of those calls scores with that scorer.
C4_FirstCallsShareOneScorer ==
    /\ \A v \in DOMAIN built : built[v] <= 1
    /\ \A p \in Callers :
          (/\ Finished(p, "score_lead") /\ req[p].first /\ ~req[p].open
           /\ req[p].vertical \in DOMAIN FEATURE_CONFIG /\ req[p].data = "valid"
           /\ Get(artifact, req[p].vertical, "missing") = "booster")
              => /\ res[p].kind = "result"
                 /\ req[p].vertical \in DOMAIN scorers

\* C3: reload_models returns exactly one entry per registered vertical,
\* success=true for every vertical whose reload succeeded and success=false
\* with an error for every vertical whose reload failed.
C3_ReloadIsolation ==
    \A p \in Callers :
        Finished(p, "reload_models") =>
            /\ res[p].kind = "reload"
            /\ DOMAIN res[p].status = DOMAIN scorers
            /\ \A v \in DOMAIN res[p].status :
                  res[p].status[v].success <=> v \in res[p].reloaded

\* caller p makes a score_lead call that ends in the step it starts in
ImmediateCall(p) ==
    /\ pc[p] \in {"idle", "done"} /\ pc'[p] = "done"
    /\ req'[p].op = "score_lead"
    /\ <<pc[p], req[p], res[p]>> # <<pc'[p], req'[p], res'[p]>>

\* the fallback result with all its fields
IsFullFallback(r) ==
    /\ r.kind = "fallback" /\ r.score = Frac(1, 2) /\ r.confidence = 30
    /\ r.price = 7500 /\ r.model_version = "fallback" /\ r.fallback

\* what an open breaker leaves alone
FallbackFrame ==
    UNCHANGED <<scorers, configs, thresholds, market_adjustments, error_counts,
                circuit_open, built, MODEL_CACHE, SCORING_ERRORS, nextModel,
                PREPROCESSOR_CACHE>>

\* C14 as stated: while the breaker of a vertical is open, score_lead for
\* that vertical with a non-empty record returns the fallback result (score
\* 0.5, confidence 0.3, price 75.00, model_version "fallback", fallback=true)
\* and changes nothing: no scorer is constructed or registered, no model is
\* loaded, and the error counter, the breaker flag, the thresholds and the
\* model cache are unchanged.
C14_OpenBreakerFallback ==
    [][\A p \in Callers :
          (/\ ImmediateCall(p)
           /\ Get(circuit_open, req'[p].vertical, FALSE)
           /\ req'[p].data # "empty")
              => IsFullFallback(res'[p]) /\ FallbackFrame]_vars

\* C14, amended: ... score_lead for that vertical, its name not empty, with
\* a non-empty record returns the fallback result and changes nothing.
C14_OpenBreakerFallbackNamed ==
    [][\A p \in Callers :
          (/\ ImmediateCall(p)
           /\ Get(circuit_open, req'[p].vertical, FALSE)
           /\ req'[p].vertical # "" /\ req'[p].data # "empty")
              => IsFullFallback(res'[p]) /\ FallbackFrame]_vars

\* a call with a record has been answered by the open breaker of a vertical
\* the service has no scorer for
C14_Witness ==
    \E p \in Callers :
        /\ Finished(p, "score_lead") /\ req[p].open
        /\ req[p].vertical = "health" /\ req[p].data = "valid"
        /\ IsFullFallback(res[p])
        /\ Get(circuit_open, "health", FALSE)
        /\ "health" \notin DOMAIN scorers

(***************************************************************************)
(* Properties of FeatureEngineer (FeatureSpec).                            *)
(***************************************************************************)
\* C11: with caching enabled, transform_features returns a feature vector
\* for an input its pipeline accepts and leaves that result in the cache
\* under the key of the input, so that a second call with the same input is
\* served the identical vector from the cache.
C11_TransformIdempotent ==
    (/\ last.op = "transform_features" /\ engineer.use_cache
     /\ Processable(engineer.vertical, last.data))
        => /\ last.ok
           /\ _generate_cache_key(last.data) \in DOMAIN PREPROCESSOR_CACHE
           /\ PREPROCESSOR_CACHE[_generate_cache_key(last.data)] = last.value

\* C20: transform_features fails with the missing-columns ValueError
\* whenever a numerical, categorical or text feature name of the vertical is
\* absent from the input, also when PREPROCESSOR_CACHE holds a result under
\* the key of that input (the validation precedes the cache lookup); the
\* failed call adds no cache entry and leaves the engineer as it was; and
\* LeadScorer.score_lead on such a record raises its ValueError and counts
\* the error.
C20_MissingColumnsFail ==
    /\ (/\ last.op = "transform_features"
        /\ ~_validate_input_data(engineer, last.data).ok)
          => /\ ~last.ok /\ last.error = "ValueError"
             /\ PREPROCESSOR_CACHE = last.pre_cache
    /\ (/\ last.op = "score_lead"
        /\ ~_validate_input_data(scorer.feature_engineer, last.data).ok)
          => /\ ~last.ok /\ last.error = "ValueError" /\ last.scored = NoScore
             /\ PREPROCESSOR_CACHE = last.pre_cache
             /\ SCORING_ERRORS = last.pre_errors + 1
    /\ \A data \in LeadFrames, in_process \in BOOLEAN :
          ~_validate_input_data(engineer, data).ok
             => LET r == transform_features(engineer, data, TRUE,
                                            CacheHolding(data), in_process)
                IN /\ ~r.ok /\ r.error = "ValueError" /\ ~r.hit
                   /\ r.cache = CacheHolding(data)
                   /\ r.self = engineer

\* score_lead of a scorer whose engineer has caching enabled has raised for
\* a frame that lacks a column of the vertical, and the error is counted
C20_Witness ==
    /\ last.op = "score_lead" /\ ~last.ok
    /\ scorer.feature_engineer.use_cache
    /\ ~_validate_input_data(scorer.feature_engineer, last.data).ok
    /\ last.data.columns # {}
    /\ SCORING_ERRORS = last.pre_errors + 1

\* the width the feature vector of an engineer is to have
FixedWidth(self) ==
    Len(self.feature_config.numerical_features)
        + Len(self.feature_config.categorical_features)
        + 100 * Len(self.feature_config.text_features)

\* C21: every feature vector transform_features produces has the width
\* |numerical| + |categorical| + 100 * |text|, and preprocess_text gives
\* exactly 100 columns per text column with either vectorizer, whatever the
\* number of distinct tokens.
C21_FixedWidth ==
    /\ (last.op = "transform_features" /\ last.ok)
          => Len(last.value.features) = FixedWidth(engineer)
    /\ (last.op = "preprocess_text" /\ last.ok)
          => Len(last.value.features)
                = 100 * Len(engineer.feature_config.text_features)

\* a record with a numerical value no column admits (age = -1)
OutOfRange(data) == data.numeric /\ data.number < 0

\* C22: scoring a record, complete otherwise, with a numerical value
\* outside the valid range of its column (age = -1) fails with the
\* ValueError of LeadScorer.score_lead, returns no result and counts the
\* error.
C22_OutOfRangeRejected ==
    (/\ last.op = "score_lead"
     /\ _validate_input_data(scorer.feature_engineer, last.data).ok
     /\ OutOfRange(last.data))
        => /\ ~last.ok /\ last.error = "ValueError"
           /\ last.scored = NoScore
           /\ SCORING_ERRORS = last.pre_errors + 1

\* score_lead has raised for the complete record of the vertical of the
\* scorer with -1 in its numerical cells
C22_Witness ==
    /\ last.op = "score_lead" /\ ~last.ok
    /\ last.data.columns = RequiredColumns(scorer.vertical)
    /\ last.data.numeric /\ last.data.number = 0 - 1
    /\ last.scored = NoScore

\* C23: update_feature_importance triggers an alert for a feature exactly
\* when the feature had a tracked value and the new score differs from it
\* by more than the threshold (0.2); after the call the tracker holds the
\* new scores.
C23_AlertOnChange ==
    (last.op = "update_feature_importance" /\ last.ok)
        => /\ last.alerts =
                 {f \in DOMAIN last.scores :
                     /\ f \in DOMAIN last.pre_importance
                     /\ Abs(last.scores[f] - last.pre_importance[f]) > 20}
           /\ \A f \in DOMAIN last.scores :
                 /\ f \in DOMAIN FEATURE_IMPORTANCE
                 /\ FEATURE_IMPORTANCE[f] = last.scores[f]

\* C29: the encoder of a categorical column is fit on first use and reused:
\* a category that was encoded to an integer in one call of an engineer is
\* encoded to the same integer in its next call.  Checked for the
\* categories frequent enough in both batches to keep their name.
C29_EncodingStable ==
    [][(last.op = "preprocess_categorical" /\ last'.op = "preprocess_categorical")
          => \A c \in DOMAIN last.batch \cap DOMAIN last'.batch :
                (last.batch[c] >= 10 /\ last'.batch[c] >= 10)
                   => last'.codes[c] = last.codes[c]]_vars

(***************************************************************************)
(* Properties of the scoring path of ScoringService                        *)
(***************************************************************************)
\* the step that ends a score_lead call of p with an exception
EndsInError(p) ==
    /\ pc'[p] = "done" /\ req'[p].op = "score_lead"
    /\ res'[p].kind = "error"
    /\ <<pc[p], req[p], res[p]>> # <<pc'[p], req'[p], res'[p]>>

\* C13: a score_lead call that ends in an exception while the breaker of its
\* vertical is closed returns no result and leaves the error counter of the
\* vertical exactly one higher than it was, the breaker open from 5 on; a
\* failing call never resets or lowers the counter.
C13_FailureCountsOnce ==
    [][\A p \in Callers :
          (EndsInError(p) /\ ~Get(circuit_open, req'[p].vertical, FALSE))
             => LET vertical == req'[p].vertical
                    before == Get(error_counts, vertical, 0)
                IN /\ ~res'[p].fallback
                   /\ Get(error_counts', vertical, 0) = before + 1
                   /\ Get(circuit_open', vertical, FALSE) = (before + 1 >= 5)]_vars

\* a call for auto with an empty record has raised and was not answered
\* from the breaker; it was the fifth failure in a row and has opened the
\* breaker of auto
C13_Witness ==
    \E p \in Callers :
        /\ Finished(p, "score_lead") /\ res[p].kind = "error" /\ ~res[p].fallback
        /\ req[p].vertical = "auto" /\ req[p].data = "empty" /\ ~req[p].after5
        /\ Get(error_counts, "auto", 0) = 5
        /\ Get(circuit_open, "auto", FALSE)

\* a fraction within [0, 1]
InUnit(q) == 0 <= q.n /\ q.n <= q.d
\* the same number
SameFrac(a, b) == a.n * b.d = b.n * a.d
\* a result returned to the caller of score_lead
Returned(r) == r.kind \in {"result", "fallback"}
\* the confidence tiers of LeadScorer._calculate_confidence
ConfidenceTiers == {70, 80, 90}

\* C17: every result score_lead returns, on the fallback path and on the
\* normal path, has its score within [0, 1] and its price within [25, 500],
\* also when the raw prediction of the model lies outside [0, 1].  The
\* normal path is checked on the values lines 83-94 compute for the result.
C17_ScoreAndPriceBounds ==
    \A p \in Callers :
        /\ Returned(res[p])
              => InUnit(res[p].score) /\ res[p].price \in 2500..50000
        /\ res[p].computed.reached
              => /\ InUnit(res[p].computed.score)
                 /\ res[p].computed.price \in 2500..50000

\* a raw prediction above 1 has been adjusted and priced for one caller and
\* the fallback result has been returned to the other
C17_Witness ==
    \E p, q \in Callers :
        /\ res[p].computed.reached /\ res[p].computed.original_score > 100
        /\ res[p].computed.score = Frac(1, 1)
        /\ res[q].kind = "fallback"

\* C18 as stated: the confidence of every result returned by score_lead is
\* one of 0.7, 0.8, 0.9.
C18_ConfidenceIsTier ==
    \A p \in Callers : Returned(res[p]) => res[p].confidence \in ConfidenceTiers

\* C18, amended: the confidence of a result returned by score_lead is 0.3 on
\* the fallback path and one of 0.7, 0.8, 0.9 on the normal path.
C18_ConfidenceIsTierOrFallback ==
    \A p \in Callers :
        /\ res[p].kind = "fallback" => res[p].confidence = 30
        /\ res[p].kind = "result" => res[p].confidence \in ConfidenceTiers
        /\ res[p].computed.reached
              => res[p].computed.confidence \in ConfidenceTiers

\* the fallback result has been returned to one caller and the scorer has
\* given a mid-range score its confidence for the other
C18_Witness ==
    \E p, q \in Callers :
        /\ res[p].kind = "fallback" /\ res[p].confidence = 30
        /\ res[q].computed.reached /\ res[q].computed.confidence = 70

\* score times every value of the adjustments
RECURSIVE TimesAll(_, _, _)
TimesAll(q, adjustments, todo) ==
    IF todo = {} THEN q
    ELSE LET factor == CHOOSE x \in todo : TRUE
         IN TimesAll(TimesTenths(q, adjustments[factor]), adjustments,
                     todo \ {factor})

\* C19: the market factors are applied only from confidence 0.8 on: at
\* confidence 0.7 the adjusted score equals original_score; at confidence
\* 0.8 or 0.9 it is the raw score times every factor of the vertical,
\* clamped to [0, 1].  Checked on the values line 83 computes for the result.
C19_AdjustmentsNeedConfidence ==
    \A p \in Callers :
        res[p].computed.reached
           => LET c == res[p].computed
                  adjustments == Get(market_adjustments, req[p].vertical, EmptyDict)
                  raw == Frac(c.original_score, 100)
                  product == TimesAll(raw, adjustments, DOMAIN adjustments)
              IN /\ c.confidence = 70 => SameFrac(c.score, raw)
                 /\ c.confidence >= 80
                       => SameFrac(c.score,
                                   IF product.n < 0 THEN Frac(0, 1)
                                   ELSE IF product.n > product.d THEN Frac(1, 1)
                                   ELSE product)

\* with factors registered for the vertical, one caller's score was left
\* alone at confidence 0.7 and the other's was multiplied at confidence 0.8
C19_Witness ==
    \E p, q \in Callers :
        /\ Get(market_adjustments, req[p].vertical, EmptyDict) # EmptyDict
        /\ res[p].computed.reached /\ res[p].computed.confidence = 70
        /\ res[p].computed.score = Frac(1, 2)
        /\ res[q].computed.reached /\ res[q].computed.confidence = 80
        /\ req[q].vertical = req[p].vertical
        /\ ~SameFrac(res[q].computed.score, Frac(res[q].computed.original_score, 100))


(***************************************************************************)
(* Properties of the lock and of the registry                              *)
(***************************************************************************)
\* a caller inside reload_models, past the lock of line 127
InReload(p) == pc[p] = "reloading"

\* a caller inside score_lead for a vertical that was registered when the
\* call began
ScoringRegistered(p) ==
    req[p].op = "score_lead" /\ ~req[p].first /\ pc[p] \notin {"idle", "done"}

\* C26: reload_models holds the lock for its whole iteration: a caller
\* inside it holds the lock, no caller is inside the registration of
\* _get_scorer meanwhile, no step taken while a reload runs changes the set
\* of registered verticals, and the status map the reload returns has the
\* verticals that were registered when it took the lock.  A score_lead call
\* for a vertical that is registered never heads for the lock or holds it,
\* and its scoring step can be taken whoever holds the lock.
C26_ReloadHoldsLock ==
    /\ [](\A p \in Callers :
            /\ (pc[p] \in {"locked", "reloading"}) => lock = p
            /\ ScoringRegistered(p)
                  => pc[p] = "score" /\ lock # p /\ ENABLED ScoreLead(p))
    /\ [][\A p \in Callers :
            InReload(p)
              => /\ DOMAIN scorers' = DOMAIN scorers
                 /\ ~InReload(p)' => DOMAIN res'[p].status = DOMAIN scorers]_vars

\* a reload holds the lock while a call for a registered vertical, begun
\* after the reload, is at its scoring step
C26_Witness ==
    \E p, q \in Callers :
        /\ InReload(q) /\ lock = q
        /\ ScoringRegistered(p) /\ pc[p] = "score"
        /\ res[q] = NoResult /\ res[p] = NoResult


\* the objects completed loads have returned so far
LoadedModels == 1 .. (nextModel - 1)

\* C27: whatever the interleaving of score_lead and reload_models, every
\* scorer in the registry holds a model, and the model is an object a
\* completed load returned: a scoring step reads the model of before a
\* reload or the model of after it.
C27_RegisteredModelLoaded ==
    \A v \in DOMAIN scorers :
        /\ scorers[v].model # NoModel
        /\ scorers[v].model \in LoadedModels

\* a reload has replaced the model of one vertical and failed to load the
\* model of another, while a call is at its scoring step
C27_Witness ==
    \E p, q \in Callers :
        /\ pc[p] = "score"
        /\ res[q].kind = "reload"
        /\ \E v \in res[q].reloaded : scorers[v].model >= 3
        /\ \E v \in DOMAIN scorers \ res[q].reloaded : scorers[v].model = FirstModel(v)


\* the breaker of a vertical is open exactly from 5 counted errors on
BreakerMatchesCounter ==
    \A v \in DOMAIN error_counts \cup DOMAIN circuit_open :
        Get(circuit_open, v, FALSE) <=> (Get(error_counts, v, 0) >= 5)

\* the step in which a score_lead call of p returns the score of its lead
ReturnsScore(p) ==
    /\ pc'[p] = "done" /\ req'[p].op = "score_lead"
    /\ res'[p].kind = "result"
    /\ <<pc[p], req[p], res[p]>> # <<pc'[p], req'[p], res'[p]>>

\* _record_success, applied in the current state to a vertical that has a
\* counter, leaves the counter at 0 and the breaker closed, and the four
\* errors recorded after it leave the breaker closed at a counter of 4
SuccessResets ==
    \A v \in DOMAIN error_counts \cup DOMAIN circuit_open :
        LET s0 == _record_success(error_counts, circuit_open, v)
            s1 == _record_error(s0.counts, s0.open, v)
            s2 == _record_error(s1.counts, s1.open, v)
            s3 == _record_error(s2.counts, s2.open, v)
            s4 == _record_error(s3.counts, s3.open, v)
        IN /\ Get(s0.counts, v, 0) = 0 /\ ~Get(s0.open, v, FALSE)
           /\ Get(s4.counts, v, 0) = 4 /\ ~Get(s4.open, v, FALSE)
           /\ \A w \in (DOMAIN error_counts \cup DOMAIN circuit_open) \ {v} :
                 /\ Get(s4.counts, w, 0) = Get(error_counts, w, 0)
                 /\ Get(s4.open, w, FALSE) = Get(circuit_open, w, FALSE)

\* C28: in every state and for every vertical the breaker is open if and
\* only if the error counter is at least 5; recording a success sets the
\* counter of the vertical to 0 and its breaker to closed, so that the
\* failures before it do not add to those after it; and a score_lead call
\* that returns the score of its lead leaves the counter of its vertical at
\* 0 and the breaker closed.
C28_BreakerFollowsCounter ==
    /\ []BreakerMatchesCounter
    /\ []SuccessResets
    /\ [][\A p \in Callers :
            ReturnsScore(p)
              => /\ Get(error_counts', req'[p].vertical, 0) = 0
                 /\ ~Get(circuit_open', req'[p].vertical, FALSE)]_vars

\* the breaker of health is open at five counted errors while auto, with
\* fewer errors counted, has its breaker closed
C28_Witness ==
    /\ Get(error_counts, "health", 0) = 5 /\ Get(circuit_open, "health", FALSE)
    /\ Get(error_counts, "auto", 0) \in 1 .. 4
    /\ ~Get(circuit_open, "auto", FALSE)


(***************************************************************************)
(* Properties of the model artifacts                                       *)
(***************************************************************************)
\* the LeadScorer object outside the registry holds the model that the
\* registered scorer of v holds
SharesModel(v) == scorer.model # NoModel /\ scorer.model = scorers[v].model

\* C30 as stated: no two live LeadScorer objects hold the same artifact as
\* their current model.
C30_ExclusiveOwner == \A v \in DOMAIN scorers : ~SharesModel(v)

\* C30, amended: two LeadScorer objects hold the same artifact only when
\* they are scorers of the same vertical; a scorer that initialises its
\* model gets either the artifact of the MODEL_CACHE entry of its vertical,
\* the entry being less than an hour old, or a newly loaded one; a reload
\* gives the reloading scorer a newly loaded artifact and leaves every
\* other scorer with the artifact it held.
C30_SharedThroughCache ==
    /\ [](\A v \in DOMAIN scorers : SharesModel(v) => scorer.vertical = v)
    /\ [][/\ scorer'.model # scorer.model
              => /\ scorers' = scorers
                 /\ \/ scorer'.model = nextModel /\ nextModel' = nextModel + 1
                    \/ /\ scorer.vertical \in DOMAIN MODEL_CACHE
                       /\ clock - MODEL_CACHE[scorer.vertical].time < CACHE_TTL
                       /\ scorer'.model = MODEL_CACHE[scorer.vertical].model
           /\ \A v \in DOMAIN scorers :
                 scorers'[v].model # scorers[v].model
                    => /\ scorer' = scorer
                       /\ scorers'[v].model \in nextModel .. (nextModel' - 1)]_vars

\* a scorer initialised half an hour after the load holds the artifact of
\* the registered scorer of its vertical, and the registered scorer of the
\* other vertical has been given a new artifact by a reload
C30_Witness ==
    /\ last.op = "_initialize_model" /\ last.ok /\ clock = 1
    /\ SharesModel(scorer.vertical)
    /\ \E v \in DOMAIN scorers : scorers[v].model >= 3


(***************************************************************************)
(* Properties of the breaker under failing calls                           *)
(***************************************************************************)
\* every step that ends a score_lead call in an exception raises the
\* counter kept under the vertical name of the call by one
FailureCounted ==
    [][\A p \in Callers :
          EndsInError(p)
             => Get(error_counts', req'[p].vertical, 0) =
                   Get(error_counts, req'[p].vertical, 0) + 1]_vars

\* C31 as stated: every failing score_lead call, whatever its cause, raises
\* the counter kept under its vertical name, and after 5 such calls in a row
\* the next call for that vertical name returns the fallback result instead
\* of an error, with no scorer registered for it.
C31_AnyFailureTrips ==
    /\ FailureCounted
    /\ [](\A p \in Callers :
            (Finished(p, "score_lead") /\ req[p].after5)
               => /\ res[p].kind = "fallback" /\ res[p].fallback
                  /\ res[p].kind # "error")

\* C31, amended: every failing score_lead call, whatever its cause, raises
\* the counter kept under its vertical name, and after 5 such calls in a row
\* the next call for that vertical name that carries a non-empty vertical
\* name and a non-empty record returns the fallback result instead of an
\* error, with no scorer registered for it; a call with an empty record or
\* an empty name fails again and is counted again.
C31_AnyFailureTripsNonEmpty ==
    /\ FailureCounted
    /\ [](\A p \in Callers :
            (Finished(p, "score_lead") /\ req[p].after5)
               => IF req[p].vertical # "" /\ req[p].data # "empty"
                  THEN res[p].kind = "fallback" /\ res[p].fallback
                  ELSE res[p].kind = "error" /\ res[p].error = "ValueError")

\* health, for which no scorer can be constructed, has failed five times in
\* a row and the call after them got the fallback result, the registry
\* holding no scorer for it
C31_Witness ==
    \E p \in Callers :
        /\ Finished(p, "score_lead") /\ req[p].after5
        /\ req[p].vertical = "health" /\ req[p].data = "valid"
        /\ res[p].kind = "fallback"
        /\ "health" \notin DOMAIN scorers
        /\ Get(error_counts, "health", 0) = 5


\* caller p takes the step
Stepped(p) == <<pc[p], req[p], res[p]>> # <<pc'[p], req'[p], res'[p]>>

\* C32: the error counter and the breaker flag of a vertical change only in
\* a step of a score_lead call for that vertical: score_lead calls for other
\* verticals leave them as they are, and so does every step of
\* reload_models, whether the reload replaces models or fails.
C32_BreakerFrame ==
    [][/\ \A v \in DOMAIN error_counts' \cup DOMAIN circuit_open' :
             (\/ Get(error_counts', v, 0) # Get(error_counts, v, 0)
              \/ Get(circuit_open', v, FALSE) # Get(circuit_open, v, FALSE)
              \/ v \notin DOMAIN error_counts)
                => \E p \in Callers :
                      /\ Stepped(p)
                      /\ req'[p].op = "score_lead" /\ req'[p].vertical = v
       /\ \A p \in Callers :
             (Stepped(p) /\ req'[p].op = "reload_models")
                => error_counts' = error_counts /\ circuit_open' = circuit_open]_vars

\* a reload has replaced the model of auto and returned while the breaker
\* of health is open at 5 errors and auto has an error counted
C32_Witness ==
    /\ Get(circuit_open, "health", FALSE) /\ Get(error_counts, "health", 0) = 5
    /\ Get(error_counts, "auto", 0) > 0
    /\ \E q \in Callers :
          /\ Finished(q, "reload_models") /\ res[q].kind = "reload"
          /\ "auto" \in res[q].reloaded


\* C33: registration is all-or-nothing and permanent: in every state a
\* vertical has a scorer in the registry if and only if it has a config, a
\* threshold and a market adjustment entry; a registration that raises
\* leaves no scorer registered for its vertical; and no step of score_lead
\* or reload_models takes a vertical out of the registry or replaces its
\* scorer object.
C33_RegistrationAllOrNothing ==
    /\ [](/\ DOMAIN configs = DOMAIN scorers
          /\ DOMAIN thresholds = DOMAIN scorers
          /\ DOMAIN market_adjustments = DOMAIN scorers)
    /\ [](\A p \in Callers :
            (Finished(p, "score_lead") /\ res[p].kind = "error")
               => req[p].vertical \notin DOMAIN scorers)
    /\ [][DOMAIN scorers \subseteq DOMAIN scorers']_vars

\* the registration of auto has raised inside the lock and the call has
\* ended in its error; the service holds no scorer, config, threshold or
\* market adjustment entry for auto
C33_Witness ==
    \E p \in Callers :
        /\ Finished(p, "score_lead") /\ res[p].kind = "error" /\ res[p].used_scorer
        /\ req[p].vertical = "auto" /\ req[p].data = "valid"
        /\ lock = "free"
        /\ "auto" \notin DOMAIN scorers \cup DOMAIN configs
                            \cup DOMAIN thresholds \cup DOMAIN market_adjustments


\* the step in which caller p runs reload_models and returns
ReloadReturns(p) ==
    /\ pc[p] = "reloading" /\ pc'[p] = "done"
    /\ res'[p].kind = "reload"

\* C34: the status reload_models reports for a vertical matches what the
\* call did: a vertical reported success=false has the model of its scorer,
\* its MODEL_CACHE entry and its config and threshold in the service as
\* they were before the call, and a vertical whose scorer got another model
\* in the call is reported success=true, with a config and a threshold in
\* the service.
C34_StatusMatchesState ==
    [][\A p \in Callers :
          ReloadReturns(p)
             => \A v \in DOMAIN scorers :
                   /\ v \in DOMAIN res'[p].status
                   /\ ~res'[p].status[v].success
                         => /\ scorers'[v].model = scorers[v].model
                            /\ Get(MODEL_CACHE', v, None) = Get(MODEL_CACHE, v, None)
                            /\ Get(configs', v, None) = Get(configs, v, None)
                            /\ Get(thresholds', v, 0) = Get(thresholds, v, 0)
                   /\ scorers'[v].model # scorers[v].model
                         => /\ res'[p].status[v].success
                            /\ v \in DOMAIN configs' /\ v \in DOMAIN thresholds'
                            /\ res'[p].status[v].threshold = thresholds'[v]]_vars


(***************************************************************************)
(* Liveness of the calls                                                   *)
(***************************************************************************)
\* caller p is inside a call
InCall(p) == pc[p] \notin {"idle", "done"}

\* C36: the lock causes no deadlock and no stuck request: under fair
\* scheduling every score_lead and every reload_models call that has begun
\* completes, with a result or an error; the lock is held only by a caller
\* inside the registration or inside the reload, so it is released on
\* every path out of them, also when the construction of a scorer or a
\* reload raises; and a held lock becomes free.
C36_CallsComplete ==
    /\ \A p \in Callers : InCall(p) ~> (pc[p] = "done" /\ res[p].kind # "none")
    /\ (lock # "free") ~> (lock = "free")
    /\ [](\A p \in Callers : lock = p => pc[p] \in {"locked", "reloading"})

\* a registration has raised inside the lock, a reload whose load failed
\* has returned, and the lock is free
C36_Witness ==
    /\ lock = "free"
    /\ \E p \in Callers :
          /\ Finished(p, "score_lead") /\ req[p].first
          /\ res[p].kind = "error" /\ res[p].used_scorer
    /\ \E q \in Callers :
          /\ Finished(q, "reload_models") /\ res[q].kind = "reload"
          /\ \E v \in DOMAIN res[q].status : v \notin res[q].reloaded

====
